---- MODULE Spec2Model ----
(***************************************************************************)
(* A model of grok-trader's order-book feed: the per-instrument price     *)
(* level book (polymarket/feed.py OrderBook, strategy/polymarket.py Book) *)
(* and the subscription topology of PolymarketFeed / Polymarket.          *)
(*                                                                         *)
(* Python values: a dict is a TLA+ function whose DOMAIN is the set of     *)
(* keys that are present; JSON null is Null; a float is an integer number  *)
(* of hundredths (0.40 is 40, 5.0 is 500), so float("0.40") = 40.          *)
(***************************************************************************)
EXTENDS Integers, Sequences, FiniteSets, TLC

VARIABLES
    book,           \* the book object under test (an OrderBook or a Book)
    last,           \* the last operation called on the book, and what it returned
    rep,            \* an OrderBook fed by update_from_book_message
    inc,            \* an OrderBook fed the same levels by _upsert_bid / _upsert_ask
    fed,            \* number of messages fed to rep and inc
    feed,           \* a PolymarketFeed: market_tokens, token_lookup, asset_ids
    pm,             \* the Polymarket instance constructed last
    call,           \* the last subscribe call on feed and its outcome
    prev,           \* the call before it and the topology it left
    conn,           \* the feed object on the websocket: its books and its topology
    wire,           \* the frames that have arrived on the connection, in order
    rd,             \* the reader thread: where it is in _on_message
    lock,           \* the holder of the feed's _lock, or Null
    log,            \* what the reader has done: drops, updates, callbacks, errors
    rp,             \* the thread that calls get_report
    strat,          \* the autotrader's Strategy object
    now,            \* the clock (seconds) when the last book callback returned
    cb,             \* the last on_new_book call: its time, arguments and calls
    lastact,        \* the last cycle that passed the throttle, with its calls
    prevact,        \* the cycle that passed the throttle before it
    sk,             \* a Polymarket instance's socket and thread
    reg,            \* main.py's active_autotrades and active_feeds
    cl,             \* the last close / start / stop call and its outcome
    sig,            \* the Strategy's signal window: tweets (a deque) and tweet_ids
    post,           \* the last on_new_post call, and the posts that arrived so far
    sim,            \* a backtester Simulator
    simcall,        \* the last apply_actions call on sim: arguments, outcome
    src,            \* the message source and the strategy of a replay_history run
    rpl,            \* replay_history: its books, its simulator, where it is
    live,           \* a Polymarket instance that is given the same messages
    rstep,          \* the last message of the replay: what it and live did with it
    hb,             \* a feed's websocket connections: what was sent on each, its heartbeat
    vw              \* an OrderBook under update by the reader, and a thread that reads it

bookVars == <<book, last>>
convVars == <<rep, inc, fed>>
topoVars == <<feed, pm, call, prev>>
connVars == <<conn, wire, rd, lock, log, rp>>
loopVars == <<strat, now, cb, lastact, prevact>>
closeVars == <<sk, reg, cl>>
postVars == <<sig, post>>
simVars == <<sim, simcall>>
replayVars == <<src, rpl, live, rstep>>
heartVars == <<hb>>
viewVars == <<vw>>
vars == <<book, last, rep, inc, fed, feed, pm, call, prev,
          conn, wire, rd, lock, log, rp,
          strat, now, cb, lastact, prevact, sk, reg, cl, sig, post,
          sim, simcall, src, rpl, live, rstep, hb, vw>>

\* the variables of the other components, which a component's actions leave alone
exceptBook == <<convVars, topoVars, connVars, loopVars, closeVars, postVars, simVars,
    replayVars, heartVars, viewVars>>
exceptConv == <<bookVars, topoVars, connVars, loopVars, closeVars, postVars, simVars,
    replayVars, heartVars, viewVars>>
exceptTopo == <<bookVars, convVars, connVars, loopVars, closeVars, postVars, simVars,
    replayVars, heartVars, viewVars>>
exceptConn == <<bookVars, convVars, topoVars, loopVars, closeVars, postVars, simVars,
    replayVars, heartVars, viewVars>>
exceptLoop == <<bookVars, convVars, topoVars, connVars, closeVars, postVars, simVars,
    replayVars, heartVars, viewVars>>
exceptClose == <<bookVars, convVars, topoVars, connVars, loopVars, postVars, simVars,
    replayVars, heartVars, viewVars>>
exceptPost == <<bookVars, convVars, topoVars, connVars, loopVars, closeVars, simVars,
    replayVars, heartVars, viewVars>>
exceptSim == <<bookVars, convVars, topoVars, connVars, loopVars, closeVars, postVars,
    replayVars, heartVars, viewVars>>
exceptReplay == <<bookVars, convVars, topoVars, connVars, loopVars, closeVars, postVars,
    simVars, heartVars, viewVars>>
exceptHeart == <<bookVars, convVars, topoVars, connVars, loopVars, closeVars, postVars,
    simVars, replayVars, viewVars>>
exceptView == <<bookVars, convVars, topoVars, connVars, loopVars, closeVars, postVars,
    simVars, replayVars, heartVars>>

Null == "<null>"

Min(a, b) == IF a <= b THEN a ELSE b

(***************************************************************************)
(* Bounds of the model.                                                    *)
(***************************************************************************)
\* levels carried by one book message, bids and asks together
MaxLevels == 2
\* largest n passed to best_bid / best_ask
MaxN == 2
\* messages fed to the replace / upsert pair
MaxFed == 2

(***************************************************************************)
(* float(): a numeric string parses, any other string raises ValueError,   *)
(* None raises TypeError.                                                  *)
(***************************************************************************)
NumericTokens == {"0.40", "0.42", "0.5", "0.6", "10", "5", "0", "-1"}

FloatValue(tok) ==
    CASE tok = "0.40" -> 40
      [] tok = "0.42" -> 42
      [] tok = "0.5"  -> 50
      [] tok = "0.6"  -> 60
      [] tok = "10"   -> 1000
      [] tok = "5"    -> 500
      [] tok = "0"    -> 0
      [] tok = "-1"   -> -100

Float(tok) ==
    IF tok = Null THEN [exc |-> "TypeError", v |-> 0]
    ELSE IF tok \in NumericTokens THEN [exc |-> Null, v |-> FloatValue(tok)]
    ELSE [exc |-> "ValueError", v |-> 0]

\* d.get(k, default)
Get(d, k, default) == IF k \in DOMAIN d THEN d[k] ELSE default

\* Python truthiness of a string-or-None value
Truthy(x) == x # Null /\ x # ""

(***************************************************************************)
(* list.sort(key=price): a stable insertion, ascending, or descending with *)
(* reverse=True (which keeps the original order of equal keys too).        *)
(***************************************************************************)
RECURSIVE InsertAsc(_, _)
InsertAsc(s, x) ==
    IF s = <<>> THEN <<x>>
    ELSE IF s[Len(s)][1] <= x[1] THEN Append(s, x)
    ELSE Append(InsertAsc(SubSeq(s, 1, Len(s) - 1), x), s[Len(s)])

RECURSIVE InsertDesc(_, _)
InsertDesc(s, x) ==
    IF s = <<>> THEN <<x>>
    ELSE IF s[Len(s)][1] >= x[1] THEN Append(s, x)
    ELSE Append(InsertDesc(SubSeq(s, 1, Len(s) - 1), x), s[Len(s)])

RECURSIVE SortAsc(_)
SortAsc(s) ==
    IF s = <<>> THEN <<>>
    ELSE InsertAsc(SortAsc(SubSeq(s, 1, Len(s) - 1)), s[Len(s)])

RECURSIVE SortDesc(_)
SortDesc(s) ==
    IF s = <<>> THEN <<>>
    ELSE InsertDesc(SortDesc(SubSeq(s, 1, Len(s) - 1)), s[Len(s)])

(***************************************************************************)
(* The two book classes.                                                   *)
(***************************************************************************)
NewOrderBook(asset_id, market) ==
    [cls |-> "OrderBook", asset_id |-> asset_id, market |-> market,
     bids |-> <<>>, asks |-> <<>>, timestamp |-> Null, hash |-> Null]

NewBook(asset_id, market, side) ==
    [cls |-> "Book", asset_id |-> asset_id, market |-> market, side |-> side,
     bids |-> <<>>, asks |-> <<>>, timestamp |-> Null, hash |-> Null]

\* msg.get("bids") or msg.get("buys") or []
RawBids(msg) ==
    IF "bids" \in DOMAIN msg /\ msg.bids # <<>> THEN msg.bids
    ELSE IF "buys" \in DOMAIN msg /\ msg.buys # <<>> THEN msg.buys
    ELSE <<>>

\* msg.get("asks") or msg.get("sells") or []
RawAsks(msg) ==
    IF "asks" \in DOMAIN msg /\ msg.asks # <<>> THEN msg.asks
    ELSE IF "sells" \in DOMAIN msg /\ msg.sells # <<>> THEN msg.sells
    ELSE <<>>

\* OrderBook._parse_side, one level: only ValueError is caught
_parse_side_level(level) ==
    LET p == Float(Get(level, "price", "0"))
        s == Float(Get(level, "size", "0"))
    IN  IF p.exc = "TypeError" \/ s.exc = "TypeError"
        THEN [exc |-> "TypeError", lv |-> <<0, 0>>]
        ELSE [exc |-> Null, lv |-> <<p.v, s.v>>]

\* OrderBook._parse_side: the first level that raises ends the parse
RECURSIVE _parse_side(_)
_parse_side(levels) ==
    IF levels = <<>> THEN [exc |-> Null, parsed |-> <<>>]
    ELSE LET init == _parse_side(SubSeq(levels, 1, Len(levels) - 1))
             one  == _parse_side_level(levels[Len(levels)])
         IN  IF init.exc # Null THEN init
             ELSE IF one.exc # Null THEN [exc |-> one.exc, parsed |-> <<>>]
             ELSE [exc |-> Null, parsed |-> Append(init.parsed, one.lv)]

\* Book._parse, one field: float(level.get(k, 0) or 0), any exception gives 0.0
_parse_field(level, k) ==
    LET raw == Get(level, k, "0")
        f   == Float(IF Truthy(raw) THEN raw ELSE "0")
    IN  IF f.exc # Null THEN 0 ELSE f.v

\* Book._parse
_parse(levels) ==
    [i \in 1..Len(levels) |->
        <<_parse_field(levels[i], "price"), _parse_field(levels[i], "size")>>]

\* OrderBook.update_from_book_message: the book it leaves and what it raises
update_from_book_message(ob, msg) ==
    LET meta == [ob EXCEPT !.market = Get(msg, "market", Null),
                           !.timestamp = Get(msg, "timestamp", Null),
                           !.hash = Get(msg, "hash", Null)]
        pb == _parse_side(RawBids(msg))
        pa == _parse_side(RawAsks(msg))
    IN  IF pb.exc # Null THEN [book |-> meta, exc |-> pb.exc]
        ELSE IF pa.exc # Null THEN [book |-> meta, exc |-> pa.exc]
        ELSE [book |-> [meta EXCEPT !.bids = SortDesc(pb.parsed),
                                    !.asks = SortAsc(pa.parsed)],
              exc |-> Null]

\* Book.update_from_message
update_from_message(bk, msg) ==
    LET ts == Get(msg, "timestamp", Null)
        h  == Get(msg, "hash", Null)
    IN  [book |-> [bk EXCEPT !.market = Get(msg, "market", bk.market),
                             !.timestamp = IF Truthy(ts) THEN ts ELSE bk.timestamp,
                             !.hash = IF Truthy(h) THEN h ELSE bk.hash,
                             !.bids = SortDesc(_parse(RawBids(msg))),
                             !.asks = SortAsc(_parse(RawAsks(msg)))],
         exc |-> Null]

\* OrderBook._upsert_bid on the list: the loop from the first level on
RECURSIVE UpsertDesc(_, _, _)
UpsertDesc(levels, price, size) ==
    IF levels = <<>> THEN <<<<price, size>>>>
    ELSE IF Head(levels)[1] = price THEN <<<<price, size>>>> \o Tail(levels)
    ELSE IF Head(levels)[1] < price THEN <<<<price, size>>>> \o levels
    ELSE <<Head(levels)>> \o UpsertDesc(Tail(levels), price, size)

\* OrderBook._upsert_ask on the list
RECURSIVE UpsertAsc(_, _, _)
UpsertAsc(levels, price, size) ==
    IF levels = <<>> THEN <<<<price, size>>>>
    ELSE IF Head(levels)[1] = price THEN <<<<price, size>>>> \o Tail(levels)
    ELSE IF Head(levels)[1] > price THEN <<<<price, size>>>> \o levels
    ELSE <<Head(levels)>> \o UpsertAsc(Tail(levels), price, size)

\* [(p, s) for (p, s) in levels if p != price]
Without(levels, price) == SelectSeq(levels, LAMBDA l : l[1] # price)

\* the loop of _upsert_bid with the update-in-place branch left out
RECURSIVE UpsertDescNoUpdate(_, _, _)
UpsertDescNoUpdate(levels, price, size) ==
    IF levels = <<>> THEN <<<<price, size>>>>
    ELSE IF Head(levels)[1] < price THEN <<<<price, size>>>> \o levels
    ELSE <<Head(levels)>> \o UpsertDescNoUpdate(Tail(levels), price, size)

_upsert_bid_no_update(ob, price, size) ==
    IF size <= 0 THEN [ob EXCEPT !.bids = Without(ob.bids, price)]
    ELSE [ob EXCEPT !.bids = UpsertDescNoUpdate(ob.bids, price, size)]

_upsert_bid(ob, price, size) ==
    IF size <= 0 THEN [ob EXCEPT !.bids = Without(ob.bids, price)]
    ELSE [ob EXCEPT !.bids = UpsertDesc(ob.bids, price, size)]

_upsert_ask(ob, price, size) ==
    IF size <= 0 THEN [ob EXCEPT !.asks = Without(ob.asks, price)]
    ELSE [ob EXCEPT !.asks = UpsertAsc(ob.asks, price, size)]

\* Python's s[:n]: a negative n counts from the end
SliceTo(s, n) ==
    LET stop == IF n < 0 THEN (IF Len(s) + n < 0 THEN 0 ELSE Len(s) + n)
                ELSE Min(n, Len(s))
    IN  SubSeq(s, 1, stop)

\* best_bid without its n <= 0 guard
best_bid_unguarded(b, n) == SliceTo(b.bids, n)

\* OrderBook.best_bid, Book.best_bid
best_bid(b, n) == IF n <= 0 THEN <<>> ELSE SliceTo(b.bids, n)

\* OrderBook.best_ask, Book.best_ask
best_ask(b, n) == IF n <= 0 THEN <<>> ELSE SliceTo(b.asks, n)

(***************************************************************************)
(* The book messages of the model: up to MaxLevels raw levels, under the   *)
(* bids/asks or the legacy buys/sells keys, with or without the envelope's *)
(* market, timestamp and hash.                                             *)
(***************************************************************************)
\* the raw levels of the bid side: two good ones, a zero size at a price of
\* another, a malformed price with a negative size
RawLevels ==
    { [price |-> "0.40", size |-> "10"],
      [price |-> "0.42", size |-> "5"],
      [price |-> "0.40", size |-> "0"],
      [price |-> "abc",  size |-> "-1"] }

\* the raw levels of the ask side
RawAskLevels ==
    { [price |-> "0.42", size |-> "5"],
      [price |-> "0.40", size |-> "0"] }

\* a level whose price is JSON null
NullLevel == [price |-> Null, size |-> "abc"]

SeqsOf(S, n) == [1..n -> S]

Envelope ==
    [event_type |-> "book", asset_id |-> "A", market |-> "m1",
     timestamp |-> "t1", hash |-> "h1"]

SidePart(key, levels, n) ==
    IF n = 0 THEN {<<>>} ELSE {[k \in {key} |-> s] : s \in SeqsOf(levels, n)}

\* the two messages of the end-to-end scenario for instrument "A"
ScenarioMsg1 ==
    [event_type |-> "book", asset_id |-> "A",
     bids |-> <<[price |-> "0.40", size |-> "10"]>>,
     asks |-> <<[price |-> "0.42", size |-> "5"]>>]

ScenarioMsg2 ==
    [event_type |-> "book", asset_id |-> "A",
     bids |-> <<[price |-> "0.40", size |-> "0"]>>]

\* messages under the bids / asks keys
ModernMessages ==
    UNION { IF nb + na > MaxLevels THEN {}
            ELSE { Envelope @@ b @@ a :
                     b \in SidePart("bids", RawLevels, nb),
                     a \in SidePart("asks", RawAskLevels, na) } :
            nb \in 0..MaxLevels, na \in 0..MaxLevels }

\* messages under the legacy buys / sells keys, one of them with an empty bids list
\* beside its buys; messages with a null price, alone or after a good level; and
\* the scenario's messages, which carry no market, timestamp or hash
OtherMessages ==
    { Envelope @@ [buys |-> <<l>>] : l \in RawLevels }
    \cup { Envelope @@ [sells |-> <<l>>] : l \in RawAskLevels }
    \cup { Envelope @@ [bids |-> <<>>, buys |-> <<[price |-> "0.42", size |-> "5"]>>],
           Envelope @@ [bids |-> <<NullLevel>>],
           Envelope @@ [asks |-> <<[price |-> "0.42", size |-> "5"], NullLevel>>],
           ScenarioMsg1, ScenarioMsg2 }

BookMessages == ModernMessages \cup OtherMessages

\* the floats passed to _upsert_bid / _upsert_ask
Prices == {40, 42}
Sizes == {0, 500}

(***************************************************************************)
(* The book under test: one object of either class, and the calls on it.   *)
(***************************************************************************)
NoCall == [op |-> "none"]

InitBook ==
    /\ book \in {NewOrderBook("A", Null), NewBook("A", Null, Null)}
    /\ last = NoCall

ApplyBookMessage ==
    \E msg \in BookMessages :
        /\ book.cls = "OrderBook"
        /\ LET r == update_from_book_message(book, msg)
           IN  /\ book' = r.book
               /\ last' = [op |-> "update", msg |-> msg, exc |-> r.exc]
        /\ UNCHANGED exceptBook

ApplyMessage ==
    \E msg \in BookMessages :
        /\ book.cls = "Book"
        /\ LET r == update_from_message(book, msg)
           IN  /\ book' = r.book
               /\ last' = [op |-> "update", msg |-> msg, exc |-> r.exc]
        /\ UNCHANGED exceptBook

UpsertBid ==
    \E price \in Prices, size \in Sizes :
        /\ book.cls = "OrderBook"
        /\ book' = _upsert_bid(book, price, size)
        /\ last' = [op |-> "_upsert_bid", price |-> price, size |-> size]
        /\ UNCHANGED exceptBook

UpsertAsk ==
    \E price \in Prices, size \in Sizes :
        /\ book.cls = "OrderBook"
        /\ book' = _upsert_ask(book, price, size)
        /\ last' = [op |-> "_upsert_ask", price |-> price, size |-> size]
        /\ UNCHANGED exceptBook

BestBid ==
    \E n \in -1..MaxN :
        /\ last' = [op |-> "best_bid", n |-> n, ret |-> best_bid(book, n)]
        /\ UNCHANGED <<book, exceptBook>>

BestAsk ==
    \E n \in -1..MaxN :
        /\ last' = [op |-> "best_ask", n |-> n, ret |-> best_ask(book, n)]
        /\ UNCHANGED <<book, exceptBook>>

NextBook ==
    \/ ApplyBookMessage
    \/ ApplyMessage
    \/ UpsertBid
    \/ UpsertAsk
    \/ BestBid
    \/ BestAsk

IdleBook == book = NewOrderBook("A", Null) /\ last = NoCall

(***************************************************************************)
(* The two update strategies side by side: rep takes each message through  *)
(* update_from_book_message, inc takes the same parsed levels one by one   *)
(* through _upsert_bid / _upsert_ask.  The messages here are well formed:  *)
(* numeric fields, positive sizes, no price twice on a side.               *)
(***************************************************************************)
ConvLevels ==
    { [price |-> "0.40", size |-> "10"],
      [price |-> "0.42", size |-> "5"],
      [price |-> "0.40", size |-> "5"] }

DistinctPrices(levels) ==
    \A i, j \in 1..Len(levels) : i # j => levels[i].price # levels[j].price

ConvSide(key, n) ==
    IF n = 0 THEN {<<>>}
    ELSE {[k \in {key} |-> s] : s \in {t \in SeqsOf(ConvLevels, n) : DistinctPrices(t)}}

ConvMessages ==
    UNION { IF nb + na > MaxLevels THEN {}
            ELSE { Envelope @@ b @@ a :
                     b \in ConvSide("bids", nb), a \in ConvSide("asks", na) } :
            nb \in 0..MaxLevels, na \in 0..MaxLevels }

RECURSIVE UpsertBids(_, _)
UpsertBids(ob, parsed) ==
    IF parsed = <<>> THEN ob
    ELSE UpsertBids(_upsert_bid(ob, Head(parsed)[1], Head(parsed)[2]), Tail(parsed))

RECURSIVE UpsertAsks(_, _)
UpsertAsks(ob, parsed) ==
    IF parsed = <<>> THEN ob
    ELSE UpsertAsks(_upsert_ask(ob, Head(parsed)[1], Head(parsed)[2]), Tail(parsed))

InitConv ==
    /\ rep = NewOrderBook("A", Null)
    /\ inc = NewOrderBook("A", Null)
    /\ fed = 0

FeedBoth ==
    \E msg \in ConvMessages :
        /\ fed < MaxFed
        /\ rep' = update_from_book_message(rep, msg).book
        /\ inc' = UpsertAsks(UpsertBids(inc, _parse_side(RawBids(msg)).parsed),
                             _parse_side(RawAsks(msg)).parsed)
        /\ fed' = fed + 1
        /\ UNCHANGED exceptConv

(***************************************************************************)
(* Subscription topology.  A dict that is iterated is a sequence in        *)
(* insertion order: market_tokens is a sequence of [slug, sides], sides a  *)
(* sequence of <<side, token>>.                                            *)
(***************************************************************************)
\* polymarket.asset_id.fetch_event_market_clobs: event slug -> market slug -> {yes, no}
fetch_event_market_clobs(event_slug) ==
    CASE event_slug = "e1" ->
           << [slug |-> "m1", sides |-> << <<"yes", "t1">>, <<"no", "t2">> >>],
              [slug |-> "m2", sides |-> << <<"yes", "t3">>, <<"no", "t4">> >>] >>
      [] event_slug = "e2" ->
           << [slug |-> "m3", sides |-> << <<"yes", "t5">>, <<"no", "t6">> >>] >>
      [] OTHER -> <<>>

EventSlugs == {"e1", "e2", "e3"}
MarketSlugs == {"m1", "m2", "m3", "mx"}

Slugs(mt) == {mt[i].slug : i \in 1..Len(mt)}
Entry(mt, slug) == mt[CHOOSE i \in 1..Len(mt) : mt[i].slug = slug]

\* for side, token in sides.items(): token_ids.append(token); lookup[token] = (slug, side)
RECURSIVE AddSides(_, _, _)
AddSides(acc, slug, sides) ==
    IF sides = <<>> THEN acc
    ELSE AddSides([token_ids |-> Append(acc.token_ids, Head(sides)[2]),
                   token_lookup |-> (Head(sides)[2] :> <<slug, Head(sides)[1]>>)
                                        @@ acc.token_lookup],
                  slug, Tail(sides))

\* for slug, sides in market_tokens.items(): ...
RECURSIVE AddMarkets(_, _)
AddMarkets(acc, mt) ==
    IF mt = <<>> THEN acc
    ELSE AddMarkets(AddSides(acc, Head(mt).slug, Head(mt).sides), Tail(mt))

NoTokens == [token_ids |-> <<>>, token_lookup |-> <<>>]

NewPolymarketFeed == [asset_ids |-> <<>>, market_tokens |-> <<>>, token_lookup |-> <<>>]

\* subscribe that extends the list instead of replacing it
subscribe_extending(self, markets) == [self EXCEPT !.asset_ids = @ \o markets]

\* PolymarketFeed.subscribe
subscribe(self, markets) == [self EXCEPT !.asset_ids = markets]

\* subscribe_event without `self.token_lookup = {}`
subscribe_event_without_reset(self, event_slug) ==
    LET mt  == fetch_event_market_clobs(event_slug)
        acc == AddMarkets([token_ids |-> <<>>, token_lookup |-> self.token_lookup], mt)
    IN  subscribe([self EXCEPT !.market_tokens = mt, !.token_lookup = acc.token_lookup],
                  acc.token_ids)

\* PolymarketFeed.subscribe_event
subscribe_event(self, event_slug) ==
    LET mt  == fetch_event_market_clobs(event_slug)
        acc == AddMarkets(NoTokens, mt)
    IN  subscribe([self EXCEPT !.market_tokens = mt, !.token_lookup = acc.token_lookup],
                  acc.token_ids)

NoExc == [type |-> "none", names |-> {}]

\* subscribe_market's last part, without the reset of token_lookup
Narrow_keeping_lookup(self, market_slug) ==
    LET entry == Entry(self.market_tokens, market_slug)
        acc   == AddSides([token_ids |-> <<>>, token_lookup |-> self.token_lookup],
                          market_slug, entry.sides)
    IN  subscribe([self EXCEPT !.market_tokens = <<entry>>,
                               !.token_lookup = acc.token_lookup],
                  acc.token_ids)

\* subscribe_market's last part, without the narrowing of market_tokens
Narrow_keeping_markets(self, market_slug) ==
    LET entry == Entry(self.market_tokens, market_slug)
        acc   == AddSides(NoTokens, market_slug, entry.sides)
    IN  subscribe([self EXCEPT !.token_lookup = acc.token_lookup], acc.token_ids)

\* PolymarketFeed.subscribe_market, from `market_tokens = self.market_tokens[market_slug]`
Narrow(self, market_slug) ==
    LET entry == Entry(self.market_tokens, market_slug)
        acc   == AddSides(NoTokens, market_slug, entry.sides)
    IN  subscribe([self EXCEPT !.market_tokens = <<entry>>,
                               !.token_lookup = acc.token_lookup],
                  acc.token_ids)

\* subscribe_market that returns where it should raise KeyError
subscribe_market_silent(self, market_slug, event_slug) ==
    IF self.market_tokens = <<>> /\ ~Truthy(event_slug)
    THEN [self |-> self, exc |-> [type |-> "ValueError", names |-> {}]]
    ELSE LET s1 == IF self.market_tokens = <<>>
                   THEN subscribe_event(self, event_slug) ELSE self
             s2 == IF market_slug \notin Slugs(s1.market_tokens) /\ Truthy(event_slug)
                   THEN subscribe_event(s1, event_slug) ELSE s1
         IN  IF market_slug \notin Slugs(s2.market_tokens)
             THEN [self |-> s2, exc |-> NoExc]
             ELSE [self |-> Narrow(s2, market_slug), exc |-> NoExc]

\* PolymarketFeed.subscribe_market: the feed it leaves and what it raises
subscribe_market(self, market_slug, event_slug) ==
    IF self.market_tokens = <<>> /\ ~Truthy(event_slug)
    THEN [self |-> self, exc |-> [type |-> "ValueError", names |-> {}]]
    ELSE LET s1 == IF self.market_tokens = <<>>
                   THEN subscribe_event(self, event_slug) ELSE self
             s2 == IF market_slug \notin Slugs(s1.market_tokens) /\ Truthy(event_slug)
                   THEN subscribe_event(s1, event_slug) ELSE s1
         IN  IF market_slug \notin Slugs(s2.market_tokens)
             THEN [self |-> s2, exc |-> [type |-> "KeyError", names |-> {market_slug}]]
             ELSE [self |-> Narrow(s2, market_slug), exc |-> NoExc]

\* Polymarket.__init__, the fields _prepare_subscription works on
NewPolymarket(event_slug, market_slug) ==
    [event_slug |-> event_slug, market_slug |-> market_slug, asset_ids |-> <<>>,
     token_lookup |-> <<>>, market_books |-> <<>>, started |-> FALSE]

\* market_entry = self.market_books.setdefault(slug, {}); market_entry.setdefault(side)
RECURSIVE PrepareSides(_, _, _)
PrepareSides(self, slug, sides) ==
    IF sides = <<>> THEN self
    ELSE LET side  == Head(sides)[1]
             token == Head(sides)[2]
             entry == self.market_books[slug]
         IN  PrepareSides(
                 [self EXCEPT !.token_lookup = (token :> <<slug, side>>) @@ @,
                              !.asset_ids = Append(@, token),
                              !.market_books =
                                  (slug :> (IF side \in DOMAIN entry THEN entry
                                            ELSE (side :> Null) @@ entry)) @@ @],
                 slug, Tail(sides))

RECURSIVE PrepareMarkets(_, _)
PrepareMarkets(self, selected) ==
    IF selected = <<>> THEN self
    ELSE LET slug == Head(selected).slug
             s0   == IF slug \in DOMAIN self.market_books THEN self
                     ELSE [self EXCEPT !.market_books = (slug :> <<>>) @@ @]
         IN  PrepareMarkets(PrepareSides(s0, slug, Head(selected).sides), Tail(selected))

\* Polymarket._prepare_subscription: the instance it leaves and what it raises
_prepare_subscription(self) ==
    LET mapping == fetch_event_market_clobs(self.event_slug)
    IN  IF mapping = <<>>
        THEN [self |-> self, exc |-> [type |-> "ValueError", names |-> {self.event_slug}]]
        ELSE IF Truthy(self.market_slug) /\ self.market_slug \notin Slugs(mapping)
        THEN [self |-> self,
              exc |-> [type |-> "ValueError",
                       names |-> {self.market_slug, self.event_slug}]]
        ELSE [self |-> PrepareMarkets(self,
                          IF Truthy(self.market_slug)
                          THEN <<Entry(mapping, self.market_slug)>> ELSE mapping),
              exc |-> NoExc]

\* Polymarket._start_socket: the websocket thread is started
_start_socket(self) ==
    IF self.asset_ids = <<>>
    THEN [self |-> self, exc |-> [type |-> "ValueError", names |-> {}]]
    ELSE [self |-> [self EXCEPT !.started = TRUE], exc |-> NoExc]

\* Polymarket.__init__
Polymarket(event_slug, market_slug) ==
    LET p == _prepare_subscription(NewPolymarket(event_slug, market_slug))
    IN  IF p.exc # NoExc THEN p ELSE _start_socket(p.self)

Topology(f) == <<f.market_tokens, f.token_lookup, f.asset_ids>>

InitTopo ==
    /\ feed = NewPolymarketFeed
    /\ pm = [self |-> NewPolymarket(Null, Null), exc |-> NoExc]
    /\ call = [op |-> "none", market |-> Null, event |-> Null, exc |-> NoExc,
               known |-> {}]
    /\ prev = [op |-> "none", market |-> Null, event |-> Null,
               topology |-> Topology(NewPolymarketFeed)]

\* what the call that is now the last one becomes when another is made
Previous == [op |-> call.op, market |-> call.market, event |-> call.event,
             topology |-> Topology(feed)]

SubscribeEvent ==
    \E e \in EventSlugs :
        /\ feed' = subscribe_event(feed, e)
        /\ call' = [op |-> "subscribe_event", market |-> Null, event |-> e,
                    exc |-> NoExc, known |-> Slugs(feed.market_tokens)]
        /\ prev' = Previous
        /\ UNCHANGED <<pm, exceptTopo>>

SubscribeMarket ==
    \E m \in MarketSlugs, e \in EventSlugs \cup {Null} :
        /\ LET r == subscribe_market(feed, m, e)
           IN  /\ feed' = r.self
               /\ call' = [op |-> "subscribe_market", market |-> m, event |-> e,
                           exc |-> r.exc, known |-> Slugs(feed.market_tokens)]
        /\ prev' = Previous
        /\ UNCHANGED <<pm, exceptTopo>>

ConstructPolymarket ==
    \E e \in EventSlugs, m \in MarketSlugs \cup {Null} :
        /\ pm' = Polymarket(e, m)
        /\ UNCHANGED <<feed, call, prev, exceptTopo>>

NextTopo ==
    \/ SubscribeEvent
    \/ SubscribeMarket
    \/ ConstructPolymarket

(***************************************************************************)
(* The feed connection: PolymarketFeed (polymarket/feed.py) and Polymarket *)
(* (strategy/polymarket.py) on a websocket.  wire is every frame that has  *)
(* arrived, in arrival order; the reader thread takes them one at a time   *)
(* through _on_message, and runs the strategy callback itself.  A frame is *)
(* the text's JSON reading: [json |-> "invalid"] for a text that is not    *)
(* JSON (the "PONG" answer), [json |-> "number"] for a scalar, an object   *)
(* [json |-> "object", v |-> dict], or an array [json |-> "array", items   *)
(* |-> sequence of such values].  log is the trace of what the reader did. *)
(***************************************************************************)
\* frames that arrive on the connection
MaxFrames == 2
\* get_report calls
MaxReports == 1

\* Optional[Book] as an argument or a report line
None == [none |-> TRUE]
Some(b) == [none |-> FALSE, book |-> b]

\* json.loads(message)
json_loads(message) ==
    IF message.json = "invalid" THEN [exc |-> "JSONDecodeError", data |-> message]
    ELSE [exc |-> Null, data |-> message]

Reverse(s) == [i \in 1..Len(s) |-> s[Len(s) + 1 - i]]

\* `for item in data` taking the array from its end
for_item_in_reversed(data) == Reverse(data.items)

\* _on_message: `for item in data` for a list, the object itself for a dict
for_item_in(data) == data.items

\* _on_message after json.loads: the values it goes through, in order
items_of(data) ==
    IF data.json = "array" THEN for_item_in(data)
    ELSE IF data.json = "object" THEN <<data>>
    ELSE <<>>

\* the early returns of the handler with the event_type test left out
past_early_returns_any_event(msg) == Truthy(Get(msg, "asset_id", Null))

\* _handle_book_message / _handle_book before the lock: FALSE when it returns early
past_early_returns(msg) ==
    /\ Get(msg, "event_type", Null) = "book"
    /\ Truthy(Get(msg, "asset_id", Null))

\* `if isinstance(item, dict): self._handle_book_message(item)`, up to the lock
reaches_lock(item) ==
    IF item.json = "object" THEN past_early_returns(item.v) ELSE FALSE

\* a with-block that does not release the lock where it ends
with_lock_kept(holder) == holder

\* the end of `with self._lock:`, reached by falling through or by an exception
with_lock_exit(holder) == Null

\* PolymarketFeed._handle_book_message inside the lock: the feed it leaves, what
\* update_from_book_message raised, and the arguments on_order_book is called with
_handle_book_message_locked(self, msg) ==
    LET asset_id  == msg.asset_id
        orderbook == IF asset_id \in DOMAIN self.orderbooks
                     THEN self.orderbooks[asset_id]
                     ELSE NewOrderBook(asset_id, Get(msg, "market", Null))
        r == update_from_book_message(orderbook, msg)
    IN  [self |-> [self EXCEPT !.orderbooks = (asset_id :> r.book) @@ @],
         exc  |-> r.exc,
         book |-> r.book,
         args |-> [market |-> asset_id, order_book |-> r.book]]

\* self.market_books.setdefault(slug, {})[side] = book
\* an assignment that makes the entry of the market anew
SetMarketBook_alone(market_books, slug, side, ref) ==
    (slug :> (side :> ref)) @@ market_books

SetMarketBook(market_books, slug, side, ref) ==
    (slug :> ((side :> ref) @@ Get(market_books, slug, <<>>))) @@ market_books

\* market_entry.get(side), the book it refers to
EntryBook(self, slug, side) ==
    LET ref == Get(Get(self.market_books, slug, <<>>), side, Null)
    IN  IF ref = Null THEN None ELSE Some(self.books[ref])

\* Polymarket._handle_book inside the lock: the instance it leaves and the
\* (yes_book, no_book) the strategy is called with
_handle_book_locked(self, msg) ==
    LET asset_id == msg.asset_id
        lk0 == Get(self.token_lookup, asset_id, <<self.market_slug, "">>)
        s1  == IF asset_id \in DOMAIN self.books THEN self
               ELSE [self EXCEPT
                       !.books = (asset_id :> NewBook(asset_id, lk0[1], lk0[2])) @@ @,
                       !.market_books = SetMarketBook(@, lk0[1], lk0[2], asset_id)]
        b   == update_from_message(s1.books[asset_id], msg).book
        s2  == [s1 EXCEPT !.books = (asset_id :> b) @@ @]
        lk  == Get(s2.token_lookup, asset_id, <<b.market, b.side>>)
        s3  == [s2 EXCEPT !.market_books = SetMarketBook(@, lk[1], lk[2], asset_id)]
    IN  [self |-> s3,
         exc  |-> Null,
         book |-> b,
         args |-> [yes_book |-> EntryBook(s3, lk[1], "yes"),
                   no_book  |-> EntryBook(s3, lk[1], "no")]]

\* the body of the handler's with-block, for either class
handle_locked(self, msg) ==
    IF self.cls = "PolymarketFeed" THEN _handle_book_message_locked(self, msg)
    ELSE _handle_book_locked(self, msg)

\* PolymarketFeed() after subscribe_event("e1")
NewFeedConnection ==
    [cls |-> "PolymarketFeed", orderbooks |-> <<>>]
        @@ subscribe_event(NewPolymarketFeed, "e1")

\* Polymarket("e1", strategy, market_slug="m1")
NewPolymarketConnection ==
    [cls |-> "Polymarket", books |-> <<>>] @@ Polymarket("e1", "m1").self

IdleReader == [pc |-> "idle", n |-> 0, i |-> 0, items |-> <<>>]
IdleReport == [pc |-> "idle", done |-> 0]

\* the book messages of the connection: instrument t1 (yes of m1) with one bid or
\* another, instrument t2 (no of m1), and t1 with a null price
WireBook(asset_id, levels) ==
    [json |-> "object",
     v |-> [event_type |-> "book", asset_id |-> asset_id, market |-> "c1",
            timestamp |-> "ts", hash |-> "h", bids |-> levels]]

BookT1a == WireBook("t1", <<[price |-> "0.40", size |-> "10"]>>)
BookT1b == WireBook("t1", <<[price |-> "0.42", size |-> "5"]>>)
BookT2  == WireBook("t2", <<[price |-> "0.40", size |-> "10"]>>)
BookT1Null == WireBook("t1", <<NullLevel>>)

\* objects the handler returns early on: another event type, an empty instrument
\* id, a null one, none, no event_type
PriceChange ==
    [json |-> "object",
     v |-> [event_type |-> "price_change", asset_id |-> "t1", market |-> "c1"]]
EmptyAsset ==
    [json |-> "object", v |-> [event_type |-> "book", asset_id |-> "", market |-> "c1"]]
NullAsset ==
    [json |-> "object", v |-> [event_type |-> "book", asset_id |-> Null]]
NoAsset ==
    [json |-> "object", v |-> [event_type |-> "book", market |-> "c1"]]
NoEventType ==
    [json |-> "object", v |-> [asset_id |-> "t1", market |-> "c1"]]

Array(items) == [json |-> "array", items |-> items]

\* the frames of the connection
Frames ==
    { [json |-> "invalid"], [json |-> "number"],
      BookT1a, BookT2, BookT1Null, PriceChange, EmptyAsset,
      Array(<<BookT1a, BookT1b>>),
      Array(<<BookT1Null, BookT2>>),
      Array(<<[json |-> "number"], NoAsset, BookT1b>>),
      Array(<<NullAsset, NoEventType>>),
      Array(<<>>) }

\* the frames of the connection while reports are taken
ReportFrames == {BookT1a, BookT2}

InitConn ==
    /\ conn \in {NewFeedConnection, NewPolymarketConnection}
    /\ wire = <<>>
    /\ rd = IdleReader
    /\ lock = Null
    /\ log = <<>>
    /\ rp = IdleReport

IdleConn ==
    /\ conn = NewFeedConnection
    /\ wire = <<>>
    /\ rd = IdleReader
    /\ lock = Null
    /\ log = <<>>
    /\ rp = IdleReport

\* a frame arrives on the connection
Arrive ==
    \E frame \in Frames :
        /\ Len(wire) < MaxFrames
        /\ wire' = Append(wire, frame)
        /\ UNCHANGED <<conn, rd, lock, log, rp, exceptConn>>

\* a book frame arrives on the connection
ArriveBook ==
    \E frame \in ReportFrames :
        /\ Len(wire) < MaxFrames
        /\ wire' = Append(wire, frame)
        /\ UNCHANGED <<conn, rd, lock, log, rp, exceptConn>>

\* where the reader goes after an item: the next one, or back to the socket
AfterItem(r) ==
    IF Len(r.items) > 1 THEN [r EXCEPT !.pc = "dispatch", !.items = Tail(@)]
    ELSE [r EXCEPT !.pc = "idle", !.items = <<>>]

\* _on_message, from the frame's arrival to the first item
ReadFrame ==
    /\ rd.pc = "idle"
    /\ rd.n < Len(wire)
    /\ LET n == rd.n + 1
           parsed == json_loads(wire[n])
           items == IF parsed.exc # Null THEN <<>> ELSE items_of(parsed.data)
       IN  /\ rd' = [pc |-> IF items = <<>> THEN "idle" ELSE "dispatch",
                     n |-> n, i |-> 0, items |-> items]
           /\ log' = IF wire[n].json \in {"object", "array"} THEN log
                     ELSE Append(log, [ev |-> "drop", n |-> n, i |-> 0, item |-> wire[n]])
    /\ UNCHANGED <<conn, wire, lock, rp, exceptConn>>

\* an item that is no dict, or one the handler returns early on
DropItem ==
    /\ rd.pc = "dispatch"
    /\ LET item == Head(rd.items)
       IN  /\ ~reaches_lock(item)
           /\ log' = Append(log, [ev |-> "drop", n |-> rd.n, i |-> rd.i + 1,
                                  item |-> item])
    /\ rd' = [AfterItem(rd) EXCEPT !.i = rd.i + 1]
    /\ UNCHANGED <<conn, wire, lock, rp, exceptConn>>

\* the handler reaches `with self._lock:` and gets the lock
AcquireForBook ==
    /\ rd.pc = "dispatch"
    /\ reaches_lock(Head(rd.items))
    /\ lock = Null
    /\ lock' = "reader"
    /\ rd' = [rd EXCEPT !.pc = "locked", !.i = rd.i + 1]
    /\ UNCHANGED <<conn, wire, log, rp, exceptConn>>

\* the with-block: the book is found or made and updated, the lock is released,
\* and the callback is entered; an exception of the update leaves _on_message
UpdateLocked ==
    /\ rd.pc = "locked"
    /\ \E r \in {handle_locked(conn, Head(rd.items).v)} :
         \E applied \in {[ev |-> "apply", n |-> rd.n, i |-> rd.i, item |-> Head(rd.items),
                          exc |-> r.exc, book |-> r.book]} :
           /\ conn' = r.self
           /\ lock' = with_lock_exit(lock)
           /\ IF r.exc # Null
              THEN /\ log' = log \o <<applied,
                                      [ev |-> "error", n |-> rd.n, i |-> rd.i,
                                       item |-> Head(rd.items), from |-> "update"]>>
                   /\ rd' = [rd EXCEPT !.pc = "idle", !.items = <<>>]
              ELSE /\ log' = log \o <<applied,
                                      [ev |-> "callback", n |-> rd.n, i |-> rd.i,
                                       item |-> Head(rd.items), args |-> r.args]>>
                   /\ rd' = [rd EXCEPT !.pc = "callback"]
    /\ UNCHANGED <<wire, rp, exceptConn>>

\* the strategy callback returns
CallbackReturn ==
    /\ rd.pc = "callback"
    /\ rd' = AfterItem(rd)
    /\ UNCHANGED <<conn, wire, lock, log, rp, exceptConn>>

\* the strategy callback raises: Polymarket._handle_book catches it and returns,
\* PolymarketFeed.on_order_book lets it leave _on_message
CallbackRaise ==
    /\ rd.pc = "callback"
    /\ IF conn.cls = "Polymarket"
       THEN /\ rd' = AfterItem(rd)
            /\ log' = Append(log, [ev |-> "caught", n |-> rd.n, i |-> rd.i,
                                   item |-> Head(rd.items)])
       ELSE /\ rd' = [rd EXCEPT !.pc = "idle", !.items = <<>>]
            /\ log' = Append(log, [ev |-> "error", n |-> rd.n, i |-> rd.i,
                                   item |-> Head(rd.items), from |-> "callback"])
    /\ UNCHANGED <<conn, wire, lock, rp, exceptConn>>

\* get_report's per-market lines: the yes and no books of each market
ReportLine(self, entry) ==
    LET ref(side) ==
            LET ids == {entry.sides[j][2] :
                          j \in {k \in 1..Len(entry.sides) : entry.sides[k][1] = side}}
            IN  IF ids = {} THEN None
                ELSE LET id == CHOOSE t \in ids : TRUE
                     IN  IF id \in DOMAIN self.orderbooks
                         THEN Some(self.orderbooks[id]) ELSE None
    IN  [slug |-> entry.slug, yes |-> ref("yes"), no |-> ref("no")]

\* get_report, the two lengths it reads before it takes the lock
ReportCounts ==
    /\ conn.cls = "PolymarketFeed"
    /\ rp.pc \in {"idle", "done"}
    /\ rp.done < MaxReports
    /\ rp' = [pc |-> "counted", done |-> rp.done,
              markets |-> Len(conn.market_tokens),
              assets |-> Cardinality(DOMAIN conn.orderbooks),
              at_counts |-> <<conn.market_tokens, conn.orderbooks>>]
    /\ UNCHANGED <<conn, wire, rd, lock, log, exceptConn>>

\* get_report reaches `with self._lock:` and gets the lock
ReportAcquire ==
    /\ rp.pc = "counted"
    /\ lock = Null
    /\ lock' = "reporter"
    /\ rp' = [rp EXCEPT !.pc = "locked"]
    /\ UNCHANGED <<conn, wire, rd, log, exceptConn>>

\* get_report's with-block and return
ReportLines ==
    /\ rp.pc = "locked"
    /\ rp' = [rp EXCEPT !.pc = "done", !.done = @ + 1]
                @@ [lines |-> [j \in 1..Len(conn.market_tokens) |->
                                  ReportLine(conn, conn.market_tokens[j])],
                    at_lines |-> <<conn.market_tokens, conn.orderbooks>>]
    /\ lock' = with_lock_exit(lock)
    /\ UNCHANGED <<conn, wire, rd, log, exceptConn>>

\* a caller narrows the running feed to one market; subscribe_market takes no lock
SubscribeLive ==
    \E m \in {"m1", "m2"} :
        /\ conn.cls = "PolymarketFeed"
        /\ LET r == subscribe_market(conn, m, Null)
           IN  /\ r.exc = NoExc
               /\ r.self # conn
               /\ conn' = r.self
        /\ UNCHANGED <<wire, rd, lock, log, rp, exceptConn>>

Reader ==
    \/ ReadFrame
    \/ DropItem
    \/ AcquireForBook
    \/ UpdateLocked

NextConn ==
    \/ Arrive
    \/ ReadFrame
    \/ DropItem
    \/ AcquireForBook
    \/ UpdateLocked
    \/ CallbackReturn
    \/ CallbackRaise

NextReport ==
    \/ ArriveBook
    \/ ReadFrame
    \/ AcquireForBook
    \/ UpdateLocked
    \/ CallbackReturn
    \/ CallbackRaise
    \/ ReportCounts
    \/ ReportAcquire
    \/ ReportLines
    \/ SubscribeLive

(***************************************************************************)
(* The decision loop: strategy/autotrader.py Strategy.on_new_book, called  *)
(* by the feed's reader thread, one call at a time.  Times are seconds of  *)
(* time.time(), in steps of 10; an external call (open orders, decision    *)
(* provider) takes time, so the calls of a cycle are made at or after the  *)
(* time the cycle read the clock.                                          *)
(***************************************************************************)
\* `if now - self._last_decision_ts < 30`
THROTTLE == 30
\* the clock value beyond which no callback starts
MaxTime == 70
\* steps of 10 s between the return of a callback and the next callback
MaxGap == 3
\* steps of 10 s an exposure refresh or a decision provider call may take
MaxDelay == 1

Steps(n) == {10 * k : k \in 0..n}

\* a clamp that looks at max_size only
Min3_without_position(a, b, c) == Min(a, b)

Min3(a, b, c) == Min(a, Min(b, c))

\* Strategy.__init__; max_position is <<p>> when configured as p and <<>> when it
\* is None, client is None when create_client_from_env raised
NewStrategy(max_size, max_position, client) ==
    [market_slug |-> "m1", max_size |-> max_size,
     max_position |-> IF max_position # <<>> THEN max_position[1] ELSE max_size,
     positions |-> <<>>, yes_book |-> Null, no_book |-> Null,
     _last_decision_ts |-> 0, client |-> client]

\* a throttle test that never holds a callback back
throttled_never(t, last_decision_ts) == FALSE

\* `now - self._last_decision_ts < 30`
throttled(t, last_decision_ts) == t - last_decision_ts < THROTTLE

\* a test that looks at the yes book only
book_missing_yes_only(yes_book, no_book) == yes_book = Null

\* `if not self.yes_book or not self.no_book: return`
book_missing(yes_book, no_book) == yes_book = Null \/ no_book = Null

\* brain.produce_trading_decision, from the parsed answer of the model
produce_trading_decision(max_size, max_position, parsed) ==
    IF parsed.action = "hold"
    THEN [action |-> "hold", outcome |-> parsed.outcome, price |-> 0, size |-> 0]
    ELSE [action |-> parsed.action, outcome |-> parsed.outcome, price |-> parsed.price,
          size |-> Min3(parsed.size, max_size, max_position)]

\* what the collaborators do in one cycle: the open orders the first get_orders pair
\* returns (or "raise"), the time it takes, the provider's parsed answer (or
\* [action |-> "raise"]), and the time that takes
NoInput == [orders |-> "none", dr |-> 0, parsed |-> [action |-> "none"], dp |-> 0]

OpenOrders == {"raise", "flat", "open"}

Parsed ==
    { [action |-> "raise"],
      [action |-> "hold", outcome |-> "yes", price |-> 50, size |-> 300],
      [action |-> "buy", outcome |-> "yes", price |-> 40, size |-> 700],
      [action |-> "sell", outcome |-> "no", price |-> 42, size |-> 300],
      [action |-> "buy", outcome |-> "no", price |-> 42, size |-> 0] }

\* the positions list a get_orders pair gives
PositionsOf(orders) ==
    IF orders = "open" THEN <<[asset_id |-> "t1", side |-> "BUY", size |-> 300]>>
    ELSE <<>>

\* a sell that is never taken for a sell while flat
sells_flat_never(decision, positions) == FALSE

\* `if decision.action == "sell" and not self.positions`
sells_flat(decision, positions) == decision.action = "sell" /\ positions = <<>>

\* an except clause that puts back the decision timestamp of before the cycle
except_restoring(stamped, before) ==
    [stamped EXCEPT !._last_decision_ts = before._last_decision_ts]

\* `except Exception as e: print(...)`: the strategy stays as the cycle left it
except_printing(stamped, before) == stamped

NoDecision == [action |-> "none"]

\* whether on_new_book returns before it reads the clock or right after
returns_early(self, yes_book, no_book, t) ==
    \/ book_missing(yes_book, no_book)
    \/ throttled(t, self._last_decision_ts)

\* Strategy.on_new_book called at time t: the strategy it leaves, the external
\* calls it made with their times, and the time it returns
on_new_book(self, yes_book, no_book, t, x) ==
    LET s0 == [self EXCEPT !.yes_book = yes_book, !.no_book = no_book]
    IN  IF book_missing(yes_book, no_book)
        THEN [self |-> s0, acted |-> FALSE, calls |-> <<>>, end |-> t,
              decision |-> NoDecision, failed |-> FALSE]
        ELSE IF throttled(t, self._last_decision_ts)
        THEN [self |-> s0, acted |-> FALSE, calls |-> <<>>, end |-> t,
              decision |-> NoDecision, failed |-> FALSE]
        ELSE
        LET s1 == [s0 EXCEPT !._last_decision_ts = t]
            has_client == self.client # Null
            \* refresh positions via open orders snapshot
            s2 == IF has_client /\ x.orders # "raise"
                  THEN [s1 EXCEPT !.positions = PositionsOf(x.orders)] ELSE s1
            refresh == IF has_client
                       THEN <<[kind |-> "get_orders", for |-> "positions", t |-> t,
                               asset_id |-> yes_book],
                              [kind |-> "get_orders", for |-> "positions", t |-> t,
                               asset_id |-> no_book]>>
                       ELSE <<>>
            t1 == IF has_client THEN t + x.dr ELSE t
            provider == <<[kind |-> "provider", for |-> "decision", t |-> t1]>>
            t2 == t1 + x.dp
        IN  IF x.parsed.action = "raise"
            THEN [self |-> except_printing(s2, self), acted |-> TRUE,
                  calls |-> refresh \o provider, end |-> t2,
                  decision |-> NoDecision, failed |-> TRUE]
            ELSE
            LET decision == produce_trading_decision(s2.max_size, s2.max_position,
                                                     x.parsed)
                wants == has_client /\ decision.action # "hold" /\ decision.size > 0
                flat_sell == wants /\ sells_flat(decision, s2.positions)
                order == IF wants /\ ~flat_sell
                         THEN <<[kind |-> "place_order", for |-> "order", t |-> t2,
                                 token_id |-> IF decision.outcome = "yes"
                                              THEN yes_book ELSE no_book,
                                 side |-> decision.action, price |-> decision.price,
                                 size |-> decision.size, order_type |-> "FAK"]>>
                         ELSE <<>>
                open_orders == IF has_client /\ ~flat_sell
                               THEN <<[kind |-> "get_orders", for |-> "open_orders",
                                       t |-> t2, asset_id |-> yes_book],
                                      [kind |-> "get_orders", for |-> "open_orders",
                                       t |-> t2, asset_id |-> no_book]>>
                               ELSE <<>>
            IN  [self |-> s2, acted |-> TRUE,
                 calls |-> refresh \o provider \o order \o open_orders, end |-> t2,
                 decision |-> decision, failed |-> FALSE]

NoCycle == [ts |-> -1, calls |-> <<>>, failed |-> FALSE]

InitLoop ==
    /\ strat \in {NewStrategy(500, <<>>, "client"), NewStrategy(500, <<400>>, "client"),
                  NewStrategy(500, <<400>>, Null)}
    /\ now \in {THROTTLE, THROTTLE + 10}
    /\ cb = [t |-> -1]
    /\ lastact = NoCycle
    /\ prevact = NoCycle

IdleLoop ==
    /\ strat = NewStrategy(500, <<500>>, "client")
    /\ now = THROTTLE
    /\ cb = [t |-> -1]
    /\ lastact = NoCycle
    /\ prevact = NoCycle

\* the reader thread calls on_new_book(yes_book, no_book)
OnNewBook ==
    \E yes_book \in {Null, "t1"}, no_book \in {Null, "t2"}, gap \in Steps(MaxGap) :
        LET t == now + gap
        IN  /\ t <= MaxTime
            /\ \E x \in IF returns_early(strat, yes_book, no_book, t) THEN {NoInput}
                         ELSE [orders : OpenOrders, dr : Steps(MaxDelay),
                               parsed : Parsed, dp : Steps(MaxDelay)] :
                 \E r \in {on_new_book(strat, yes_book, no_book, t, x)} :
                   /\ strat' = r.self
                   /\ now' = r.end
                   /\ cb' = [t |-> t, yes_book |-> yes_book, no_book |-> no_book,
                             last_before |-> strat._last_decision_ts,
                             acted |-> r.acted, calls |-> r.calls,
                             decision |-> r.decision, failed |-> r.failed]
                   /\ lastact' = IF r.acted
                                 THEN [ts |-> t, calls |-> r.calls,
                                       failed |-> r.failed]
                                 ELSE lastact
                   /\ prevact' = IF r.acted THEN lastact ELSE prevact
            /\ UNCHANGED exceptLoop

NextLoop == OnNewBook

(***************************************************************************)
(* Teardown.  sk is a Polymarket instance (strategy/polymarket.py) after   *)
(* __init__: its WebSocketApp exists and its thread was started, and the   *)
(* connection is not open yet, open, or closed.  reg is main.py's pair of  *)
(* registries, active_autotrades (a dict in insertion order: a sequence of *)
(* [market, id]) and active_feeds (market -> the feed's ws), worked on by  *)
(* /autotrade/start and /autotrade/stop.  cl is the last teardown call.    *)
(***************************************************************************)
\* close() calls
MaxCloses == 2
\* /autotrade/stop calls
MaxStops == 2
\* /autotrade/start calls
MaxStarts == 2

\* Polymarket after __init__: _start_socket has made the WebSocketApp and started
\* the thread that runs it
StartedPolymarket == [_ws |-> "created", _thread |-> "alive", opened |-> FALSE]

\* Polymarket.close with the try / except around self._ws.close() left out
close_unguarded(self, ws_close_raises) ==
    IF self._ws # Null /\ ws_close_raises
    THEN [self |-> [self EXCEPT !._ws = "closed"],
          exc |-> [type |-> "Exception", names |-> {}]]
    ELSE [self |-> IF self._ws # Null THEN [self EXCEPT !._ws = "closed"] ELSE self,
          exc |-> NoExc]

\* Polymarket.close: WebSocketApp.close() stops the app whether or not it raises,
\* and join(timeout=1) waits for the thread without changing anything
close(self, ws_close_raises) ==
    [self |-> IF self._ws # Null THEN [self EXCEPT !._ws = "closed"] ELSE self,
     exc |-> NoExc]

NoRegistry == [active_autotrades |-> <<>>, active_feeds |-> <<>>]

TradeMarkets(r) == {r.active_autotrades[i].market : i \in 1..Len(r.active_autotrades)}

\* del d[key] on a dict kept as a function
DelKey(d, key) == [k \in (DOMAIN d) \ {key} |-> d[k]]

\* del active_autotrades[market]
DelTrade(trades, market) == SelectSeq(trades, LAMBDA tr : tr.market # market)

\* main.start_autotrade: the registries it leaves and the status it answers with
start_autotrade(r, market, id, start_raises) ==
    IF market \in TradeMarkets(r)
    THEN [reg |-> r, status |-> "error", exc |-> NoExc]
    ELSE IF start_raises
    THEN [reg |-> r, status |-> "error", exc |-> NoExc]
    ELSE [reg |-> [active_autotrades |->
                      Append(r.active_autotrades, [market |-> market, id |-> id]),
                   active_feeds |-> (market :> [ws |-> Null]) @@ r.active_feeds],
          status |-> "success", exc |-> NoExc]

\* `for market_slug, trade in active_autotrades.items(): if trade.id == id: break`
MarketToRemove(r, id) ==
    LET hits == {i \in 1..Len(r.active_autotrades) : r.active_autotrades[i].id = id}
    IN  IF hits = {} THEN Null
        ELSE r.active_autotrades[CHOOSE i \in hits : \A j \in hits : i <= j].market

\* main.stop_autotrade: the registries it leaves and the status it answers with
stop_autotrade(r, id, ws_close_raises) ==
    LET market == MarketToRemove(r, id)
    IN  IF market = Null
        THEN [reg |-> r, status |-> "error", exc |-> NoExc]
        ELSE
        LET feeds ==
                IF market \notin DOMAIN r.active_feeds THEN r.active_feeds
                ELSE IF r.active_feeds[market].ws = Null
                THEN DelKey(r.active_feeds, market)
                ELSE IF ws_close_raises
                THEN (market :> [ws |-> "closed"]) @@ r.active_feeds
                ELSE DelKey(r.active_feeds, market)
        IN  [reg |-> [active_autotrades |-> DelTrade(r.active_autotrades, market),
                      active_feeds |-> feeds],
             status |-> "stopped", exc |-> NoExc]

\* no call yet; n, stops and starts count the calls, stopped holds the ids that a
\* stop has found and removed
NoTeardown == [op |-> "none", n |-> 0, stops |-> 0, starts |-> 0, stopped |-> {}]

InitClose ==
    /\ sk = StartedPolymarket
    /\ reg = NoRegistry
    /\ cl = NoTeardown

IdleClose == InitClose

\* the websocket thread of the Polymarket instance opens the connection
SocketOpen ==
    /\ sk._ws = "created" /\ sk._thread = "alive"
    /\ sk' = [sk EXCEPT !._ws = "open", !.opened = TRUE]
    /\ UNCHANGED <<reg, cl, exceptClose>>

\* run_forever returns: the connection failed, was closed by the peer, or was closed
\* by close()
ThreadExit ==
    /\ sk._thread = "alive"
    /\ sk' = [sk EXCEPT !._thread = "dead",
                        !._ws = IF @ = "open" THEN "closed" ELSE @]
    /\ UNCHANGED <<reg, cl, exceptClose>>

\* a caller calls Polymarket.close()
Close ==
    \E ws_close_raises \in BOOLEAN :
        /\ cl.n < MaxCloses
        /\ \E r \in {close(sk, ws_close_raises)} :
             /\ sk' = r.self
             /\ cl' = [op |-> "close", n |-> cl.n + 1, stops |-> cl.stops,
                       starts |-> cl.starts, stopped |-> cl.stopped,
                       exc |-> r.exc, before |-> sk, after |-> r.self]
        /\ UNCHANGED <<reg, exceptClose>>

\* POST /autotrade/start
StartAutotrade ==
    \E market \in {"m1", "m2"}, id \in {"auto_1_c", "auto_2_c"},
       start_raises \in BOOLEAN :
        /\ cl.starts < MaxStarts
        /\ \E r \in {start_autotrade(reg, market, id, start_raises)} :
             /\ reg' = r.reg
             /\ cl' = [op |-> "start", n |-> cl.n, stops |-> cl.stops,
                       starts |-> cl.starts + 1, stopped |-> cl.stopped,
                       exc |-> r.exc, status |-> r.status, market |-> market,
                       before |-> reg, after |-> r.reg]
        /\ UNCHANGED <<sk, exceptClose>>

\* the background thread of a registered feed reaches connect(): feed.ws is set
FeedConnect ==
    \E market \in DOMAIN reg.active_feeds :
        /\ reg.active_feeds[market].ws = Null
        /\ reg' = [reg EXCEPT !.active_feeds[market] = [ws |-> "open"]]
        /\ UNCHANGED <<sk, cl, exceptClose>>

\* POST /autotrade/stop/{auto_trade_id}
StopAutotrade ==
    \E id \in {"auto_1_c", "auto_2_c"}, ws_close_raises \in BOOLEAN :
        /\ cl.stops < MaxStops
        /\ \E r \in {stop_autotrade(reg, id, ws_close_raises)} :
             /\ reg' = r.reg
             /\ cl' = [op |-> "stop", n |-> cl.n, stops |-> cl.stops + 1,
                       starts |-> cl.starts,
                       stopped |-> IF r.status = "stopped"
                                   THEN cl.stopped \cup {id} ELSE cl.stopped,
                       was_stopped |-> id \in cl.stopped,
                       exc |-> r.exc, status |-> r.status, id |-> id,
                       market |-> MarketToRemove(reg, id),
                       before |-> reg, after |-> r.reg]
        /\ UNCHANGED <<sk, exceptClose>>

NextClose ==
    \/ SocketOpen
    \/ ThreadExit
    \/ Close
    \/ StartAutotrade
    \/ FeedConnect
    \/ StopAutotrade

(***************************************************************************)
(* The signal window: strategy/autotrader.py Strategy.on_new_post.  A post *)
(* is a dict with a tweet_id and a text; a post without tweet_id has the   *)
(* id None.  Fresh ids arrive as 1, 2, 3, ...; a post may also repeat any  *)
(* id that arrived before, with another text.                              *)
(***************************************************************************)
\* `deque(maxlen=10)`, `> 10`
WINDOW == 10
\* on_new_post calls
MaxPosts == 13
\* tweet.get("tweet_id") of a post that has no tweet_id: None
NoId == 0

\* deque.append on a deque with maxlen: a full deque drops its leftmost item
deque_append(d, x, maxlen) ==
    IF Len(d) >= maxlen THEN Tail(d) \o <<x>> ELSE Append(d, x)

\* a membership test that finds nothing
already_seen_never(tweet_id, tweet_ids) == FALSE

\* `tweet_id in self.tweet_ids`
already_seen(tweet_id, tweet_ids) == tweet_id \in tweet_ids

RECURSIVE while_over(_)
\* `while len(self.tweet_ids) > 10 or len(self.tweets) > 10:` popleft and discard;
\* popleft on an empty deque raises IndexError
while_over(self) ==
    IF Cardinality(self.tweet_ids) > WINDOW \/ Len(self.tweets) > WINDOW
    THEN IF self.tweets = <<>>
         THEN [self EXCEPT !.exc = [type |-> "IndexError", names |-> {}]]
         ELSE while_over([self EXCEPT !.tweets = Tail(@),
                                      !.tweet_ids = @ \ {Head(self.tweets).tweet_id}])
    ELSE self

\* Strategy.on_new_post
on_new_post(self, tweet) ==
    IF already_seen(tweet.tweet_id, self.tweet_ids)
    THEN self
    ELSE while_over([self EXCEPT !.tweet_ids = @ \cup {tweet.tweet_id},
                                 !.tweets = deque_append(@, tweet, WINDOW)])

\* Strategy.__init__: tweets = deque(maxlen=10), tweet_ids = set()
NoSignals == [tweets |-> <<>>, tweet_ids |-> {}, exc |-> NoExc]

NoPost == [n |-> 0, arrived |-> <<>>]

IdsOf(tweets) == {tweets[i].tweet_id : i \in 1..Len(tweets)}

\* the ids 1, 2, ... that have arrived
FreshSoFar(arrived) == IdsOf(arrived) \ {NoId}

InitPost ==
    /\ sig = NoSignals
    /\ post = NoPost

IdlePost == InitPost

\* the tweet poller hands a post to on_new_post
OnNewPost ==
    \E tweet \in
         {[tweet_id |-> Cardinality(FreshSoFar(post.arrived)) + 1, text |-> "a"],
          [tweet_id |-> NoId, text |-> "a"]}
         \cup {[tweet_id |-> i, text |-> "b"] : i \in IdsOf(post.arrived)} :
        /\ post.n < MaxPosts
        /\ sig.exc = NoExc
        /\ sig' = on_new_post(sig, tweet)
        /\ post' = [n |-> post.n + 1, tweet |-> tweet, before |-> sig,
                    arrived |-> IF tweet.tweet_id \in IdsOf(post.arrived)
                                THEN post.arrived ELSE Append(post.arrived, tweet)]
        /\ UNCHANGED exceptPost

NextPost == OnNewPost

(***************************************************************************)
(* The replay simulator: strategy/backtester.py Simulator.  Prices and     *)
(* sizes are in hundredths, as in the books, so a notional and the cash    *)
(* are in ten-thousandths: 10 at 0.50 is 1000 * 50 = 50000, that is 5.0.   *)
(* An Optional[float] is <<>> for None and <<x>> for x.  A trade intent is *)
(* a dict; its size is a number, written as its token, a string or None.   *)
(***************************************************************************)
\* apply_actions calls on one simulator
MaxBatches == 2
\* intents in one batch
MaxActions == 2

\* str.lower() on the strings that occur
Lower(s) ==
    CASE s = "YES" -> "yes"
      [] s = "NO" -> "no"
      [] s = "BUY" -> "buy"
      [] s = "SELL" -> "sell"
      [] OTHER -> s

\* `x or y` on string-or-None values
Or(x, y) == IF Truthy(x) THEN x ELSE y

\* `(x or 0.0)` on an Optional[float]
OrZero(x) == IF x = <<>> THEN 0 ELSE x[1]

\* Simulator()
NewSimulator ==
    [cash |-> 0, pos_yes |-> 0, pos_no |-> 0,
     last_price_yes |-> <<>>, last_price_no |-> <<>>, trades |-> <<>>]

\* Simulator.mark
mark(self) ==
    self.cash + OrZero(self.last_price_yes) * self.pos_yes
              + OrZero(self.last_price_no) * self.pos_no

\* Simulator._top_price: first bid, else first ask, else None
\* a top price that is the first ask, else the first bid
_top_price_ask_first(bk) ==
    IF bk = None THEN <<>>
    ELSE IF bk.book.asks # <<>> THEN <<bk.book.asks[1][1]>>
    ELSE IF bk.book.bids # <<>> THEN <<bk.book.bids[1][1]>>
    ELSE <<>>

_top_price(bk) ==
    IF bk = None THEN <<>>
    ELSE IF bk.book.bids # <<>> THEN <<bk.book.bids[1][1]>>
    ELSE IF bk.book.asks # <<>> THEN <<bk.book.asks[1][1]>>
    ELSE <<>>

\* int(timestamp): <<n>>, or <<>> when it raises
IntOf(tok) ==
    CASE tok = "1" -> <<1>>
      [] tok = "2" -> <<2>>
      [] OTHER -> <<>>

\* Simulator._top_ts
_top_ts(yes_book, no_book) ==
    LET ts == IF yes_book # None /\ Truthy(yes_book.book.timestamp)
              THEN IntOf(yes_book.book.timestamp) ELSE <<>>
    IN  IF no_book # None /\ Truthy(no_book.book.timestamp)
           /\ IntOf(no_book.book.timestamp) # <<>>
        THEN IntOf(no_book.book.timestamp) ELSE ts

\* the cash after a trade, with a sell booked like a buy
cash_after_paying(cash, direction, notional) == cash - notional

\* `self.cash -= notional` on a buy, `self.cash += notional` on a sell
cash_after(cash, direction, notional) ==
    IF direction = "buy" THEN cash - notional ELSE cash + notional

\* the side, direction and size that apply_actions reads from an intent; float()
\* of a string that is not a number raises ValueError
Read(action) ==
    LET raw == Get(action, "size", Null)
        f   == Float(IF Truthy(raw) THEN raw ELSE "0")
    IN  [side |-> Lower(Or(Get(action, "side", Null), "")),
         direction |-> Lower(Or(Get(action, "action", Null),
                                Or(Get(action, "direction", Null), ""))),
         size |-> f.v, exc |-> f.exc]

\* a position that grows by the size on a sell as on a buy
signed_size_bought(direction, size) == size

\* `self.pos_yes += size` on a buy, `self.pos_yes -= size` on a sell
signed_size(direction, size) == IF direction = "buy" THEN size ELSE 0 - size

\* one pass of the for loop of apply_actions
apply_action(self, action, price_yes, price_no, timestamp) ==
    LET in == Read(action)
        px == IF in.side = "yes" THEN price_yes ELSE price_no
    IN  IF in.exc # Null THEN [self |-> self, exc |-> in.exc]
        ELSE IF in.side \notin {"yes", "no"} \/ in.direction \notin {"buy", "sell"}
                \/ in.size <= 0
        THEN [self |-> self, exc |-> Null]
        ELSE IF px = <<>> THEN [self |-> self, exc |-> Null]
        ELSE
        LET notional == px[1] * in.size
            signed == signed_size(in.direction, in.size)
        IN  [self |-> [self EXCEPT
                 !.pos_yes = IF in.side = "yes" THEN @ + signed ELSE @,
                 !.pos_no = IF in.side = "no" THEN @ + signed ELSE @,
                 !.cash = cash_after(@, in.direction, notional),
                 !.trades = Append(@, [side |-> in.side, action |-> in.direction,
                                       size |-> in.size, price |-> px[1],
                                       notional |-> notional,
                                       timestamp |-> timestamp])],
             exc |-> Null]

RECURSIVE for_action_in(_, _, _, _, _)
\* the for loop of apply_actions: an exception ends it
for_action_in(self, actions, price_yes, price_no, timestamp) ==
    IF actions = <<>> THEN [self |-> self, exc |-> Null]
    ELSE LET r == apply_action(self, Head(actions), price_yes, price_no, timestamp)
         IN  IF r.exc # Null THEN r
             ELSE for_action_in(r.self, Tail(actions), price_yes, price_no, timestamp)

\* Simulator.apply_actions: the simulator it leaves and what it raises
apply_actions(self, actions, yes_book, no_book) ==
    LET price_yes == _top_price(yes_book)
        price_no  == _top_price(no_book)
        r == for_action_in(self, actions, price_yes, price_no,
                           _top_ts(yes_book, no_book))
    IN  IF r.exc # Null THEN r
        ELSE [self |-> [r.self EXCEPT
                          !.last_price_yes = IF price_yes # <<>> THEN price_yes ELSE @,
                          !.last_price_no = IF price_no # <<>> THEN price_no ELSE @],
              exc |-> Null]

\* a running peak that forgets the peak
peak_forgotten(peak, equity) == equity

\* `peak = max(peak, equity)`
peak_max(peak, equity) == IF peak >= equity THEN peak ELSE equity

RECURSIVE for_tr_in(_, _)
\* the for loop of _max_drawdown over the trades left, from the running values
for_tr_in(acc, trades) ==
    IF trades = <<>> THEN acc
    ELSE
    LET tr == Head(trades)
        signed == IF tr.action = "buy" THEN tr.size ELSE 0 - tr.size
        a1 == [acc EXCEPT
                 !.pos_yes = IF tr.side = "yes" THEN @ + signed ELSE @,
                 !.pos_no = IF tr.side = "yes" THEN @ ELSE @ + signed,
                 !.cash = IF tr.action = "buy" THEN @ - tr.notional
                          ELSE @ + tr.notional,
                 !.last_yes = IF tr.side = "yes" THEN <<tr.price>> ELSE @,
                 !.last_no = IF tr.side = "yes" THEN @ ELSE <<tr.price>>]
        equity == a1.cash + OrZero(a1.last_yes) * a1.pos_yes
                          + OrZero(a1.last_no) * a1.pos_no
        peak == peak_max(a1.peak, equity)
        dd == peak - equity
    IN  for_tr_in([a1 EXCEPT !.peak = peak,
                             !.max_dd = IF @ >= dd THEN @ ELSE dd],
                  Tail(trades))

\* Simulator._max_drawdown
_max_drawdown(self) ==
    for_tr_in([last_yes |-> self.last_price_yes, last_no |-> self.last_price_no,
               cash |-> 0, pos_yes |-> 0, pos_no |-> 0, peak |-> 0, max_dd |-> 0],
              self.trades).max_dd

\* what Simulator.report prints
report(self) ==
    LET unrealized == OrZero(self.last_price_yes) * self.pos_yes
                      + OrZero(self.last_price_no) * self.pos_no
    IN  [trades |-> Len(self.trades), pos_yes |-> self.pos_yes, pos_no |-> self.pos_no,
         realized |-> self.cash, unrealized |-> unrealized,
         total |-> self.cash + unrealized, max_dd |-> _max_drawdown(self)]

\* a Book with bids and asks at the prices given, best first, and a timestamp
BookAt(asset_id, side, bids, asks, timestamp) ==
    Some([NewBook(asset_id, "m1", side) EXCEPT
            !.bids = [i \in DOMAIN bids |-> <<bids[i], 1000>>],
            !.asks = [i \in DOMAIN asks |-> <<asks[i], 1000>>],
            !.timestamp = timestamp])

\* no yes book, one with a bid at 0.40 below its ask, one with asks only
YesBooks ==
    {None, BookAt("t1", "yes", <<40>>, <<50>>, "1"), BookAt("t1", "yes", <<>>, <<60>>, "2")}

\* no no book, one with two bids, one with bid = ask, one without levels
NoBooks ==
    {None, BookAt("t2", "no", <<42, 41>>, <<50>>, "ts"),
     BookAt("t2", "no", <<40>>, <<40>>, "2"), BookAt("t2", "no", <<>>, <<>>, "2")}

\* intents that apply_actions takes: buy 10 yes, sell 5 yes, buy 5 no in upper case
\* under the key `direction`
GoodIntents ==
    { [side |-> "yes", action |-> "buy", size |-> "10"],
      [side |-> "yes", action |-> "sell", size |-> "5"],
      [side |-> "NO", direction |-> "BUY", size |-> "5"] }

\* intents with a side that is not yes/no, an action that is not buy/sell, a size
\* that is negative, absent, or a string that is not a number
BadIntents ==
    { [side |-> "maybe", action |-> "buy", size |-> "10"],
      [side |-> "yes", action |-> "hold", size |-> "10"],
      [side |-> "yes", action |-> "sell", size |-> "-1"],
      [side |-> "no", action |-> "buy"],
      [side |-> "yes", action |-> "buy", size |-> "abc"] }

Intents == GoodIntents \cup BadIntents

Batches == UNION {SeqsOf(Intents, n) : n \in 0..MaxActions}

NoBatch == [n |-> 0]

InitSim ==
    /\ sim = NewSimulator
    /\ simcall = NoBatch

IdleSim == InitSim

\* apply_actions is called with a batch of intents and the two books
ApplyActions ==
    \E actions \in Batches, yes_book \in YesBooks, no_book \in NoBooks :
        /\ simcall.n < MaxBatches
        /\ \E r \in {apply_actions(sim, actions, yes_book, no_book)} :
             /\ sim' = r.self
             /\ simcall' = [n |-> simcall.n + 1, actions |-> actions,
                            yes_book |-> yes_book, no_book |-> no_book,
                            before |-> sim, exc |-> r.exc]
        /\ UNCHANGED exceptSim

NextSim == ApplyActions

(***************************************************************************)
(* Replay: strategy/backtester.py replay_history over a message source,    *)
(* either recorded wire objects or the messages trades_to_book_messages    *)
(* makes from a trade list.  live is a Polymarket("e1", "m1") instance     *)
(* whose _handle_book is given the same objects, for comparison.  A number *)
(* in a trade (price, size, timestamp) is written as its token.            *)
(***************************************************************************)
\* recorded wire objects in one source
MaxReplay == 3

\* a label that makes every trade a trade of the no side
side_label_no(t) == "no"

\* `t.get("outcome") or ("yes" if t.get("outcomeIndex") == 0 else "no")`
side_label(t) ==
    IF Truthy(Get(t, "outcome", Null)) THEN t.outcome
    ELSE IF "outcomeIndex" \in DOMAIN t /\ t.outcomeIndex = 0 THEN "yes"
    ELSE "no"

\* `t.get("timestamp", 0)` as a sort key
TimestampKey(t) ==
    IF "timestamp" \in DOMAIN t /\ IntOf(t.timestamp) # <<>>
    THEN IntOf(t.timestamp)[1] ELSE 0

\* a sort that leaves the trades in the order they came in
sorted_as_given(trades) == trades

\* sorted(): stable, so a trade goes after the trades with a key <= its own
RECURSIVE sorted(_)
sorted(trades) ==
    IF trades = <<>> THEN <<>>
    ELSE LET init == sorted(SubSeq(trades, 1, Len(trades) - 1))
             t    == trades[Len(trades)]
             le   == SelectSeq(init, LAMBDA u : TimestampKey(u) <= TimestampKey(t))
             gt   == SelectSeq(init, LAMBDA u : TimestampKey(u) > TimestampKey(t))
         IN  le \o <<t>> \o gt

\* the body of the for loop of trades_to_book_messages: the messages of one trade
message_of(t) ==
    LET asset_id == Or(Get(t, "asset", Null), Get(t, "token", Null))
        market_slug == Or(Get(t, "slug", Null), Or(Get(t, "market", Null), ""))
        price == Float(Or(Get(t, "price", "0"), "0"))
        size  == Float(Or(Get(t, "size", "0"), "0"))
        level == [price |-> t.price, size |-> t.size]
    IN  IF ~Truthy(asset_id) \/ price.v <= 0 \/ size.v <= 0 THEN <<>>
        ELSE <<[json |-> "object",
                v |-> [event_type |-> "book", asset_id |-> asset_id,
                       market |-> market_slug, side |-> Lower(side_label(t)),
                       timestamp |-> Get(t, "timestamp", Null),
                       bids |-> <<level>>, asks |-> <<level>>]]>>

RECURSIVE for_t_in(_)
for_t_in(trades) ==
    IF trades = <<>> THEN <<>>
    ELSE message_of(Head(trades)) \o for_t_in(Tail(trades))

\* backtester.trades_to_book_messages
trades_to_book_messages(trades) == for_t_in(sorted(trades))

\* the two trades of the end-to-end scenario
TradeY1 == [asset |-> "Y", outcomeIndex |-> 0, price |-> "0.5", size |-> "10",
            timestamp |-> "1"]
TradeY2 == [asset |-> "Y", outcomeIndex |-> 0, price |-> "0.6", size |-> "5",
            timestamp |-> "2"]
\* a trade with price 0, which makes no message
TradeZero == [asset |-> "Y", outcomeIndex |-> 0, price |-> "0", size |-> "5",
              timestamp |-> "1"]
\* a trade of the no side, by its outcome
TradeN == [token |-> "N", outcome |-> "No", price |-> "0.40", size |-> "10",
           timestamp |-> "2"]

\* a trade with no asset id, and a trade with a size below zero
TradeNoAsset == [outcomeIndex |-> 0, price |-> "0.5", size |-> "10", timestamp |-> "1"]
TradeNoSize == [asset |-> "Y", outcomeIndex |-> 0, price |-> "0.5", size |-> "-1",
                timestamp |-> "2"]

ScenarioTrades == <<TradeY1, TradeY2>>

TradeLists ==
    {ScenarioTrades, <<TradeY2, TradeY1>>, <<TradeY1, TradeZero, TradeY2>>,
     <<TradeY1, TradeN>>, <<TradeN, TradeY2, TradeY1>>,
     <<TradeY2, TradeNoSize, TradeNoAsset, TradeZero, TradeY1>>}

\* book messages for instrument ids that the subscription does not have
BookTx == WireBook("tx", <<[price |-> "0.40", size |-> "10"]>>)
BookTy == WireBook("ty", <<[price |-> "0.42", size |-> "5"]>>)

\* the objects of a recorded wire source
WireObjects ==
    {BookT1a, BookT1b, BookT2, BookTx, BookTy, PriceChange, [json |-> "number"]}

WireSources == UNION {SeqsOf(WireObjects, n) : n \in 0..MaxReplay}

\* what the strategy returns on its k-th call: the scenario strategy buys 10 yes on
\* the first and sells 5 yes on the second, the silent one returns None as
\* Strategy.on_new_book does, the failing one raises, the batching one returns a list
StrategyKinds == {"scenario", "silent", "failing", "batching"}

strategy_result(kind, k) ==
    CASE kind = "scenario" /\ k = 1 ->
           [is |-> "dict", v |-> [side |-> "yes", action |-> "buy", size |-> "10"]]
      [] kind = "scenario" /\ k = 2 ->
           [is |-> "dict", v |-> [side |-> "yes", action |-> "sell", size |-> "5"]]
      [] kind = "failing" -> [is |-> "raise"]
      [] kind = "batching" ->
           [is |-> "list", v |-> <<[side |-> "yes", action |-> "buy", size |-> "5"],
                                   [side |-> "NO", direction |-> "BUY", size |-> "5"]>>]
      [] OTHER -> [is |-> "none"]

\* replay_history before the loop
NewReplay ==
    [books |-> <<>>, market_books |-> <<>>, simulator |-> NewSimulator,
     i |-> 0, calls |-> 0, exc |-> Null, reported |-> <<>>]

\* one pass of the for loop of replay_history: the replay it leaves, whether the
\* book was updated, and the arguments of the strategy call
replay_message(self, item, kind) ==
    LET skipped == [self |-> [self EXCEPT !.i = @ + 1], applied |-> FALSE,
                    called |-> 0, args |-> <<>>]
    IN  IF item.json # "object" THEN skipped
        ELSE IF Get(item.v, "event_type", Null) # "book" THEN skipped
        ELSE IF ~Truthy(Get(item.v, "asset_id", Null)) THEN skipped
        ELSE
        LET msg == item.v
            asset_id == msg.asset_id
            market_slug == Or(Get(msg, "market", Null), "")
            side == Or(Get(msg, "side", Null), "")
            bk0 == IF asset_id \in DOMAIN self.books THEN self.books[asset_id]
                   ELSE NewBook(asset_id, market_slug, side)
            bk == update_from_message(bk0, msg).book
            entry == IF side # ""
                     THEN (side :> asset_id) @@ Get(self.market_books, market_slug, <<>>)
                     ELSE Get(self.market_books, market_slug, <<>>)
            s1 == [self EXCEPT !.books = (asset_id :> bk) @@ @,
                               !.market_books = (market_slug :> entry) @@ @,
                               !.i = @ + 1, !.calls = @ + 1]
            yes_book == EntryBook(s1, market_slug, "yes")
            no_book == EntryBook(s1, market_slug, "no")
            res == strategy_result(kind, s1.calls)
            actions == IF res.is = "dict" THEN <<res.v>>
                       ELSE IF res.is = "list" THEN res.v ELSE <<>>
            r == apply_actions(s1.simulator, actions, yes_book, no_book)
        IN  [self |-> IF res.is = "raise" THEN s1
                      ELSE [s1 EXCEPT !.simulator = r.self, !.exc = r.exc],
             applied |-> TRUE, called |-> 1,
             args |-> <<[yes_book |-> yes_book, no_book |-> no_book]>>]

\* Polymarket._handle_book on the same object: the instance it leaves, whether the
\* book was updated, and the arguments of the strategy call
live_message(self, item) ==
    IF reaches_lock(item)
    THEN LET r == _handle_book_locked(self, item.v)
         IN  [self |-> r.self, applied |-> TRUE, args |-> <<r.args>>]
    ELSE [self |-> self, applied |-> FALSE, args |-> <<>>]

NoReplayStep == [n |-> 0]

InitReplay ==
    /\ src \in [from : {"trades"}, trades : TradeLists, strategy : StrategyKinds]
           \cup [from : {"wire"}, messages : WireSources, strategy : StrategyKinds]
    /\ rpl = NewReplay
    /\ live = NewPolymarketConnection
    /\ rstep = NoReplayStep

IdleReplay ==
    /\ src = [from |-> "wire", messages |-> <<>>, strategy |-> "silent"]
    /\ rpl = NewReplay
    /\ live = NewPolymarketConnection
    /\ rstep = NoReplayStep

\* the messages that replay_history goes through
MessagesOf(source) ==
    IF source.from = "trades" THEN trades_to_book_messages(source.trades)
    ELSE source.messages

\* replay_history takes the next message of the source
ReplayMessage ==
    /\ rpl.exc = Null /\ rpl.reported = <<>>
    /\ rpl.i < Len(MessagesOf(src))
    /\ \E item \in {MessagesOf(src)[rpl.i + 1]} :
         \E r \in {replay_message(rpl, item, src.strategy)} :
           \E l \in {live_message(live, item)} :
             /\ rpl' = r.self
             /\ live' = l.self
             /\ rstep' = [n |-> rstep.n + 1, item |-> item,
                          applied |-> r.applied, called |-> r.called, args |-> r.args,
                          live_applied |-> l.applied, live_args |-> l.args]
    /\ UNCHANGED <<src, exceptReplay>>

\* the source is exhausted: simulator.report()
ReplayReport ==
    /\ rpl.exc = Null /\ rpl.reported = <<>>
    /\ rpl.i = Len(MessagesOf(src))
    /\ rpl' = [rpl EXCEPT !.reported = <<report(rpl.simulator)>>]
    /\ UNCHANGED <<src, live, rstep, exceptReplay>>

NextReplay == ReplayMessage \/ ReplayReport

(***************************************************************************)
(* The websocket connection of a feed, from its open to its end: the       *)
(* subscription handshake of _on_open and the heartbeat thread it starts.  *)
(* A send on the socket either goes out or raises; a send on a socket that *)
(* has ended raises.                                                       *)
(***************************************************************************)
\* connections made one after the other, PINGs sent on one, subscribe calls
MaxConns == 2
MaxPings == 3
MaxSubs == 2

\* a heartbeat that goes on after a send that failed
after_send_retrying(ok) == "sleeping"

\* _ping: `try: ws.send("PING") except Exception: break`, then `time.sleep(10)`
after_send(ok) == IF ok THEN "sleeping" ELSE "stopped"

\* _on_open on a new connection: the handshake with the asset ids of the moment,
\* then the ping thread; a send that raises leaves _on_open before the thread starts
_on_open(asset_ids, raises) ==
    [state |-> "open",
     sends |-> <<[frame |-> "subscribe", type |-> "market", assets_ids |-> asset_ids,
                  ok |-> ~raises]>>,
     ping |-> IF raises THEN "none" ELSE "started"]

\* one pass of the loop of _ping on the connection ws
_ping(ws, raises) ==
    LET ok == ws.state = "open" /\ ~raises IN
    [ws EXCEPT !.sends = Append(@, [frame |-> "PING", ok |-> ok]),
               !.ping = after_send(ok)]

AssetIdLists == {<<"t1", "t2">>, <<"t1">>, <<"t3", "t4", "t1", "t2">>}

InitHeart ==
    hb \in [asset_ids : AssetIdLists, conns : {<<>>}, opened : {<<>>}, subs : {0}]

IdleHeart ==
    hb = [asset_ids |-> <<"t1", "t2">>, conns |-> <<>>, opened |-> <<>>, subs |-> 0]

PingsOn(ws) == Len(SelectSeq(ws.sends, LAMBDA f : f.frame = "PING"))

\* PolymarketFeed.subscribe between two connections or while one is open
HeartSubscribe ==
    /\ hb.subs < MaxSubs
    /\ \E markets \in AssetIdLists \ {hb.asset_ids} :
         hb' = [hb EXCEPT !.asset_ids = markets, !.subs = @ + 1]
    /\ UNCHANGED exceptHeart

\* connect() / _start_socket(): run_forever opens the socket and calls _on_open;
\* a feed connects again only after run_forever has returned
HeartOpen ==
    /\ Len(hb.conns) < MaxConns
    /\ hb.asset_ids # <<>>
    /\ \A c \in DOMAIN hb.conns : hb.conns[c].state = "closed"
    /\ \E raises \in BOOLEAN :
         hb' = [hb EXCEPT !.conns = Append(@, _on_open(hb.asset_ids, raises)),
                          !.opened = Append(@, hb.asset_ids)]
    /\ UNCHANGED exceptHeart

\* the ping thread of a connection sends a PING, after its start or after its sleep
HeartPing ==
    /\ \E c \in DOMAIN hb.conns :
         /\ hb.conns[c].ping \in {"started", "sleeping"}
         /\ PingsOn(hb.conns[c]) < MaxPings
         /\ \E raises \in BOOLEAN :
              hb' = [hb EXCEPT !.conns[c] = _ping(hb.conns[c], raises)]
    /\ UNCHANGED exceptHeart

\* the connection ends: the peer or the network, or close() from another thread
HeartEnd ==
    /\ \E c \in DOMAIN hb.conns :
         /\ hb.conns[c].state = "open"
         /\ hb' = [hb EXCEPT !.conns[c].state = "closed"]
    /\ UNCHANGED exceptHeart

NextHeart == HeartSubscribe \/ HeartOpen \/ HeartPing \/ HeartEnd

(***************************************************************************)
(* An OrderBook that the reader thread updates, attribute by attribute as  *)
(* update_from_book_message assigns them, while another thread reads it    *)
(* without the feed's lock, as research_endpoint and place_ioc_order do.   *)
(* A store or a load of one attribute is one step.                         *)
(***************************************************************************)
\* messages applied to the book, and passes of the waiting loop that read it
MaxUpdates == 3
MaxReads == 2

\* the attributes in the order update_from_book_message assigns them
StoreOrder == <<"market", "timestamp", "hash", "bids", "asks">>

ViewMessage(ts, bid, ask, size) ==
    [event_type |-> "book", asset_id |-> "t1", market |-> "c1", timestamp |-> ts,
     hash |-> ts, bids |-> <<[price |-> bid, size |-> size]>>,
     asks |-> <<[price |-> ask, size |-> size]>>]

ViewMessages == {ViewMessage("1", "0.40", "0.5", "10"), ViewMessage("2", "0.42", "0.6", "5")}

NoRead == [pc |-> "idle", n |-> 0, asks |-> <<>>, bids |-> <<>>]

\* the feed has just created the book of t1 (_handle_book_message under its lock)
InitView ==
    vw = [ob |-> NewOrderBook("t1", "c1"), committed |-> <<NewOrderBook("t1", "c1")>>,
          pc |-> 0, target |-> NewOrderBook("t1", "c1"), n |-> 0, obs |-> NoRead]

IdleView == InitView

\* the reader enters update_from_book_message with the next book message
ViewUpdate ==
    /\ vw.pc = 0 /\ vw.n < MaxUpdates
    /\ \E msg \in ViewMessages :
         /\ msg.timestamp # vw.ob.timestamp
         /\ vw' = [vw EXCEPT !.target = update_from_book_message(vw.ob, msg).book,
                             !.pc = 1, !.n = @ + 1]
    /\ UNCHANGED exceptView

\* the reader assigns the next attribute: self.market, self.timestamp, self.hash,
\* and after parsing and sorting self.bids and self.asks; after the last one the
\* update is complete
ViewStore ==
    /\ vw.pc \in DOMAIN StoreOrder
    /\ \E ob \in {[vw.ob EXCEPT ![StoreOrder[vw.pc]] = vw.target[StoreOrder[vw.pc]]]} :
         vw' = [vw EXCEPT !.ob = ob,
                          !.pc = IF vw.pc = Len(StoreOrder) THEN 0 ELSE vw.pc + 1,
                          !.committed = IF vw.pc = Len(StoreOrder) THEN Append(@, ob)
                                        ELSE @]
    /\ UNCHANGED exceptView

\* research_endpoint: `best_ask_list = yes_ob.best_ask(1)`
ViewReadAsk ==
    /\ vw.obs.pc \in {"idle", "done"} /\ vw.obs.n < MaxReads
    /\ vw' = [vw EXCEPT !.obs = [pc |-> "ask", n |-> vw.obs.n + 1,
                                 asks |-> best_ask(vw.ob, 1), bids |-> <<>>]]
    /\ UNCHANGED exceptView

\* research_endpoint: `best_bid_list = yes_ob.best_bid(1)`
ViewReadBid ==
    /\ vw.obs.pc = "ask"
    /\ vw' = [vw EXCEPT !.obs.pc = "done", !.obs.bids = best_bid(vw.ob, 1)]
    /\ UNCHANGED exceptView

NextView == ViewUpdate \/ ViewStore \/ ViewReadAsk \/ ViewReadBid

(***************************************************************************)
(* The specifications: the book under test, the two update strategies side *)
(* by side, the subscription topology, the feed connection, the feed       *)
(* connection with a thread that takes reports and narrows the topology,   *)
(* the decision loop, and teardown.                                        *)
(***************************************************************************)
Init == InitBook /\ InitConv /\ InitTopo /\ IdleConn /\ IdleLoop /\ IdleClose /\ IdlePost
        /\ IdleSim /\ IdleReplay /\ IdleHeart /\ IdleView

Next == NextBook

Spec == Init /\ [][Next]_vars

InitConvSpec == IdleBook /\ InitConv /\ InitTopo /\ IdleConn /\ IdleLoop /\ IdleClose /\ IdlePost
        /\ IdleSim /\ IdleReplay /\ IdleHeart /\ IdleView

NextConv == FeedBoth

SpecConv == InitConvSpec /\ [][NextConv]_vars

InitTopoSpec == IdleBook /\ InitConv /\ InitTopo /\ IdleConn /\ IdleLoop /\ IdleClose /\ IdlePost
        /\ IdleSim /\ IdleReplay /\ IdleHeart /\ IdleView

SpecTopo == InitTopoSpec /\ [][NextTopo]_vars

InitConnSpec == IdleBook /\ InitConv /\ InitTopo /\ InitConn /\ IdleLoop /\ IdleClose /\ IdlePost
        /\ IdleSim /\ IdleReplay /\ IdleHeart /\ IdleView

SpecConn == InitConnSpec /\ [][NextConn]_vars

\* the reader thread runs whenever it can take a step of its own; nothing makes
\* the strategy callback return
SpecConnLive == InitConnSpec /\ [][NextConn]_vars /\ WF_vars(Reader)

SpecReport == InitConnSpec /\ [][NextReport]_vars

InitLoopSpec == IdleBook /\ InitConv /\ InitTopo /\ IdleConn /\ InitLoop /\ IdleClose /\ IdlePost
        /\ IdleSim /\ IdleReplay /\ IdleHeart /\ IdleView

SpecLoop == InitLoopSpec /\ [][NextLoop]_vars

InitCloseSpec == IdleBook /\ InitConv /\ InitTopo /\ IdleConn /\ IdleLoop /\ InitClose /\ IdlePost
        /\ IdleSim /\ IdleReplay /\ IdleHeart /\ IdleView

SpecClose == InitCloseSpec /\ [][NextClose]_vars

InitPostSpec ==
    IdleBook /\ InitConv /\ InitTopo /\ IdleConn /\ IdleLoop /\ IdleClose /\ InitPost
        /\ IdleSim /\ IdleReplay /\ IdleHeart /\ IdleView

SpecPost == InitPostSpec /\ [][NextPost]_vars

InitSimSpec ==
    IdleBook /\ InitConv /\ InitTopo /\ IdleConn /\ IdleLoop /\ IdleClose /\ IdlePost
        /\ InitSim /\ IdleReplay /\ IdleHeart /\ IdleView

SpecSim == InitSimSpec /\ [][NextSim]_vars

InitReplaySpec ==
    IdleBook /\ InitConv /\ InitTopo /\ IdleConn /\ IdleLoop /\ IdleClose /\ IdlePost
        /\ IdleSim /\ InitReplay /\ IdleHeart /\ IdleView

SpecReplay == InitReplaySpec /\ [][NextReplay]_vars

InitHeartSpec ==
    IdleBook /\ InitConv /\ InitTopo /\ IdleConn /\ IdleLoop /\ IdleClose /\ IdlePost
        /\ IdleSim /\ IdleReplay /\ InitHeart /\ IdleView

SpecHeart == InitHeartSpec /\ [][NextHeart]_vars

InitViewSpec ==
    IdleBook /\ InitConv /\ InitTopo /\ IdleConn /\ IdleLoop /\ IdleClose /\ IdlePost
        /\ IdleSim /\ IdleReplay /\ IdleHeart /\ InitView

SpecView == InitViewSpec /\ [][NextView]_vars

(***************************************************************************)
(* Properties of the book.                                                 *)
(***************************************************************************)
StrictDesc(s) == \A i \in 1..(Len(s) - 1) : s[i][1] > s[i + 1][1]
StrictAsc(s) == \A i \in 1..(Len(s) - 1) : s[i][1] < s[i + 1][1]
PositiveSizes(s) == \A i \in 1..Len(s) : s[i][2] > 0
IndicesAt(s, price) == {i \in 1..Len(s) : s[i][1] = price}

\* C1: after any sequence of book messages and upserts, bids are strictly
\* descending by price and asks strictly ascending, so no price is twice on a side.
C1_StrictlySorted == StrictDesc(book.bids) /\ StrictAsc(book.asks)

\* C2: after a book message is applied, no level with size <= 0 is in bids or asks.
C2_NoNonPositiveSize ==
    (last.op = "update" /\ last.exc = Null)
        => (PositiveSizes(book.bids) /\ PositiveSizes(book.asks))

\* C3: a book that holds the scenario's first message, bids (0.40, 10) and asks
\* (0.42, 5), and is fed the second, bids (0.40, 0) and no asks key, ends with
\* bids = [] and asks = [(0.42, 5.0)].
C3_Scenario ==
    [][ ( /\ last.op = "update" /\ last.msg = ScenarioMsg1
          /\ book.bids = << <<40, 1000>> >> /\ book.asks = << <<42, 500>> >>
          /\ last'.op = "update" /\ last'.msg = ScenarioMsg2 )
        => (book'.bids = <<>> /\ book'.asks = << <<42, 500>> >>) ]_vars

\* what an upsert of (price, size) must leave of a sorted side `old`
UpsertPost(old, new, price, size) ==
    IF size <= 0
    THEN IF IndicesAt(old, price) = {}
         THEN new = old
         ELSE \E k \in IndicesAt(old, price) :
                /\ Len(new) = Len(old) - 1
                /\ \A i \in 1..Len(new) : new[i] = old[IF i < k THEN i ELSE i + 1]
    ELSE /\ Cardinality(IndicesAt(new, price)) = 1
         /\ \A i \in IndicesAt(new, price) : new[i] = <<price, size>>

\* C4: on a sorted side an upsert of (p, size <= 0) removes exactly the level at p,
\* or changes nothing when there is none; an upsert of (p, size > 0) leaves exactly
\* one level at p, with the new size, and the side sorted.
C4_Upsert ==
    [][ /\ (last'.op = "_upsert_bid" /\ StrictDesc(book.bids))
            => /\ UpsertPost(book.bids, book'.bids, last'.price, last'.size)
               /\ StrictDesc(book'.bids)
               /\ book'.asks = book.asks
        /\ (last'.op = "_upsert_ask" /\ StrictAsc(book.asks))
            => /\ UpsertPost(book.asks, book'.asks, last'.price, last'.size)
               /\ StrictAsc(book'.asks)
               /\ book'.bids = book.bids ]_vars

\* C4's case: an upsert with size > 0 has just put its level between two levels
\* of a sorted side
C4_Witness ==
    /\ last.op = "_upsert_bid" /\ last.size > 0
    /\ Len(book.bids) = 3 /\ StrictDesc(book.bids)
    /\ book.bids[2] = <<last.price, last.size>>

\* the first k levels of `levels`, element by element
IsPrefix(ret, levels, k) ==
    /\ Len(ret) = k
    /\ \A i \in 1..k : ret[i] = levels[i]

\* C5: best_bid(n) / best_ask(n) return exactly the first min(n, length) levels of
\* bids / asks, never more than n, and the empty sequence when n <= 0.  (They
\* assign nothing: BestBid and BestAsk leave the book unchanged.)
C5_BestLevels ==
    /\ last.op = "best_bid" =>
         /\ IsPrefix(last.ret, book.bids,
                     IF last.n <= 0 THEN 0 ELSE Min(last.n, Len(book.bids)))
         /\ (last.n <= 0 => last.ret = <<>>)
         /\ (last.n > 0 => Len(last.ret) <= last.n)
    /\ last.op = "best_ask" =>
         /\ IsPrefix(last.ret, book.asks,
                     IF last.n <= 0 THEN 0 ELSE Min(last.n, Len(book.asks)))
         /\ (last.n <= 0 => last.ret = <<>>)
         /\ (last.n > 0 => Len(last.ret) <= last.n)

\* C5's cases: a call with n below the number of levels, and one with n < 0 on a
\* book that has levels
C5_Witness ==
    /\ last.op = "best_bid" /\ last.n = -1
    /\ Len(book.bids) = 2 /\ last.ret = <<>>

\* float() of a level's field as the claim has it: 0.0 for anything not numeric
Coerce(level, k) ==
    LET raw == Get(level, k, "0")
    IN  IF raw \in NumericTokens THEN FloatValue(raw) ELSE 0

CoerceSide(levels) ==
    [i \in 1..Len(levels) |-> <<Coerce(levels[i], "price"), Coerce(levels[i], "size")>>]

\* C7: applying a book message never fails because of a malformed level: the
\* malformed price or size is taken as 0.0 and every level of the message is
\* parsed and applied.
C7_MalformedNotFatal ==
    last.op = "update" =>
        /\ last.exc = Null
        /\ book.bids = SortDesc(CoerceSide(RawBids(last.msg)))
        /\ book.asks = SortAsc(CoerceSide(RawAsks(last.msg)))

BookInvariant(b) ==
    /\ StrictDesc(b.bids) /\ StrictAsc(b.asks)
    /\ PositiveSizes(b.bids) /\ PositiveSizes(b.asks)

\* C6: fed the same messages, the replace-and-resort strategy and the level by
\* level upsert strategy end in the same bids and asks, and that state satisfies
\* the book invariants.
C6_SameState ==
    /\ rep.bids = inc.bids
    /\ rep.asks = inc.asks
    /\ BookInvariant(rep)
    /\ BookInvariant(inc)

(***************************************************************************)
(* Properties of the subscription topology.                                *)
(***************************************************************************)
\* the market of the last subscribe_market call is in neither the topology known
\* before the call nor the mapping fetched for its event slug
AbsentFromFeed ==
    /\ call.op = "subscribe_market"
    /\ call.market \notin call.known
    /\ (Truthy(call.event) =>
            call.market \notin Slugs(fetch_event_market_clobs(call.event)))

\* the Polymarket instance constructed last was given a market slug that is not in
\* its event's mapping
AbsentFromPolymarket ==
    /\ Truthy(pm.self.market_slug)
    /\ pm.self.market_slug \notin Slugs(fetch_event_market_clobs(pm.self.event_slug))

\* C8 as stated: subscribing to a market slug that is absent from the resolved
\* topology raises an error that names the missing slug, and the call does not
\* return with that market in scope.
C8_ErrorNamesSlug ==
    /\ AbsentFromFeed =>
         /\ call.exc.type # "none"
         /\ call.market \in call.exc.names
         /\ call.market \notin Slugs(feed.market_tokens)
    /\ AbsentFromPolymarket =>
         /\ pm.exc.type # "none"
         /\ pm.self.market_slug \in pm.exc.names
         /\ pm.self.asset_ids = <<>> /\ ~pm.self.started

\* C8 amended: subscribing to a market slug that is absent from the resolved
\* topology always raises and never leaves that market in scope; the error names
\* the missing slug unless there is no topology to look in at all: a PolymarketFeed
\* with no event data and no event slug raises ValueError("No event data loaded"),
\* a Polymarket whose event mapping is empty raises ValueError naming the event.
C8_NotFoundRaises ==
    /\ AbsentFromFeed =>
         /\ call.market \notin Slugs(feed.market_tokens)
         /\ IF call.known = {} /\ ~Truthy(call.event)
            THEN call.exc = [type |-> "ValueError", names |-> {}]
            ELSE call.exc = [type |-> "KeyError", names |-> {call.market}]
    /\ AbsentFromPolymarket =>
         /\ pm.self.asset_ids = <<>> /\ ~pm.self.started
         /\ pm.self.market_books = <<>>
         /\ IF fetch_event_market_clobs(pm.self.event_slug) = <<>>
            THEN pm.exc = [type |-> "ValueError", names |-> {pm.self.event_slug}]
            ELSE pm.exc = [type |-> "ValueError",
                           names |-> {pm.self.market_slug, pm.self.event_slug}]

\* C8's case: subscribe_market fetched the event and still did not find the slug,
\* and a Polymarket was constructed for a slug its event does not have
C8_Witness ==
    /\ AbsentFromFeed /\ Truthy(call.event) /\ call.exc.type = "KeyError"
    /\ feed.market_tokens # <<>>
    /\ AbsentFromPolymarket /\ pm.exc.names = {"mx", "e1"}

NoDuplicates(s) == \A i, j \in 1..Len(s) : i # j => s[i] # s[j]

SameCallTwice ==
    /\ call.op # "none"
    /\ call.op = prev.op /\ call.market = prev.market /\ call.event = prev.event

\* C9: a subscribe_event(e) or subscribe_market(m, e) that repeats the call before
\* it leaves market_tokens, token_lookup and asset_ids as that call left them, and
\* no instrument id is listed twice.
C9_Idempotent ==
    SameCallTwice =>
        /\ Topology(feed) = prev.topology
        /\ NoDuplicates(feed.asset_ids)

\* C9's case: subscribe_market(m, e) succeeded twice in a row, the first time
\* from a feed whose topology was another one
C9_Witness ==
    /\ SameCallTwice /\ call.op = "subscribe_market" /\ call.exc = NoExc
    /\ Truthy(call.event)
    /\ Len(feed.asset_ids) = 2

\* the forward entries that hold token t, as <<slug, side>>
ForwardEntries(mt, t) ==
    UNION { { <<mt[i].slug, mt[i].sides[j][1]>> :
                j \in {k \in 1..Len(mt[i].sides) : mt[i].sides[k][2] = t} } :
            i \in 1..Len(mt) }

\* C10: every instrument id of token_lookup appears in exactly one market's forward
\* entry of market_tokens, under the side token_lookup records for it.
C10_InverseInForward ==
    \A t \in DOMAIN feed.token_lookup :
        ForwardEntries(feed.market_tokens, t) = {feed.token_lookup[t]}

\* C10's case: a subscribe_market has narrowed a topology that subscribe_event built
C10_Witness ==
    /\ call.op = "subscribe_market" /\ call.exc = NoExc
    /\ prev.op = "subscribe_event" /\ Len(prev.topology[1]) = 2
    /\ DOMAIN feed.token_lookup = {"t3", "t4"}

\* the yes / no instrument ids the metadata resolver gives for a market slug
SidesOf(slug) ==
    LET e  == CHOOSE e \in EventSlugs : slug \in Slugs(fetch_event_market_clobs(e))
    IN  Entry(fetch_event_market_clobs(e), slug).sides

\* C11: after a subscribe_market(m) that returned, market_tokens has the single key
\* m, token_lookup holds exactly m's instrument ids, each under (m, its side), and
\* asset_ids is exactly the list of those ids, whatever was subscribed before.
C11_ExactlyMarket ==
    (call.op = "subscribe_market" /\ call.exc = NoExc) =>
        LET sides == SidesOf(call.market)
        IN  /\ feed.market_tokens = <<[slug |-> call.market, sides |-> sides]>>
            /\ DOMAIN feed.token_lookup = {sides[i][2] : i \in 1..Len(sides)}
            /\ \A i \in 1..Len(sides) :
                   feed.token_lookup[sides[i][2]] = <<call.market, sides[i][1]>>
            /\ feed.asset_ids = [i \in 1..Len(sides) |-> sides[i][2]]

\* C11's case: subscribe_market("m1") returned on a feed that a subscribe_event had
\* left subscribed to both markets of the event
C11_Witness ==
    /\ call.op = "subscribe_market" /\ call.exc = NoExc /\ call.market = "m1"
    /\ prev.op = "subscribe_event" /\ Len(prev.topology[3]) = 4
    /\ feed.asset_ids = <<"t1", "t2">>

(***************************************************************************)
(* Properties of the feed connection.                                      *)
(***************************************************************************)
\* the values of a frame in the order they were received
ArrivalItems(frame) ==
    IF frame.json = "array" THEN frame.items
    ELSE IF frame.json = "object" THEN <<frame>>
    ELSE <<>>

\* an object whose event_type is "book" and whose instrument id is a non-empty string
IsBookObject(item) ==
    IF item.json # "object" THEN FALSE
    ELSE /\ "event_type" \in DOMAIN item.v /\ item.v.event_type = "book"
         /\ "asset_id" \in DOMAIN item.v /\ item.v.asset_id \notin {Null, ""}

\* the instrument -> book map of either class
Books(self) == IF self.cls = "PolymarketFeed" THEN self.orderbooks ELSE self.books

Applies == {k \in 1..Len(log) : log[k].ev = "apply"}
AppliesOf(asset_id) == {k \in Applies : log[k].item.v.asset_id = asset_id}
Last(ks) == CHOOSE k \in ks : \A j \in ks : j <= k

\* the book of an instrument as the updates up to log entry k left it
BookAsOf(k, asset_id) ==
    LET ks == {j \in AppliesOf(asset_id) : j <= k}
    IN  IF ks = {} THEN None ELSE Some(log[Last(ks)].book)

\* every book of the feed is the one its instrument's last update left, and there
\* is no book but for an instrument that had an update
BooksFollowUpdates ==
    /\ DOMAIN Books(conn) = {log[k].item.v.asset_id : k \in Applies}
    /\ \A a \in DOMAIN Books(conn) : Some(Books(conn)[a]) = BookAsOf(Len(log), a)

\* C12: a frame that is not JSON, a parsed value that is neither object nor array,
\* an array item that is no object, and an object whose event_type is not "book" or
\* whose instrument id is missing, null or empty, are dropped: no update, callback
\* or error is ever recorded for one, and no book exists or differs but by the
\* updates of book objects.
C12_DroppedWithoutEffect ==
    /\ \A k \in 1..Len(log) :
          IF log[k].ev = "drop" THEN ~IsBookObject(log[k].item)
          ELSE IsBookObject(log[k].item)
    /\ BooksFollowUpdates

\* C12's case: after a book was made for t1, a price_change object for t1 came in a
\* later frame and was dropped, and the reader is back at the socket
C12_Witness ==
    /\ rd.pc = "idle" /\ rd.n = 2
    /\ wire[2] = PriceChange
    /\ "t1" \in DOMAIN Books(conn)
    /\ log[Len(log)] = [ev |-> "drop", n |-> 2, i |-> 1, item |-> PriceChange]

\* the market of an instrument id and the instrument id of a market's side, as the
\* metadata resolver gives them
KnownMarkets == UNION {Slugs(fetch_event_market_clobs(e)) : e \in EventSlugs}
TokenOf(slug, side) ==
    LET sides == SidesOf(slug)
    IN  sides[CHOOSE j \in 1..Len(sides) : sides[j][1] = side][2]
MarketOf(asset_id) ==
    CHOOSE m \in KnownMarkets : asset_id \in {TokenOf(m, "yes"), TokenOf(m, "no")}

\* C13: every update that went through is followed by exactly one callback, which
\* is passed the yes book and the no book of the updated instrument's market as
\* they are after the update (no book for a side that never had a message), the
\* updated book holding the message's levels.
C13_CallbackBothSides ==
    \A k \in Applies :
        log[k].exc = Null =>
            LET cs == {j \in 1..Len(log) :
                          /\ log[j].ev = "callback"
                          /\ log[j].n = log[k].n /\ log[j].i = log[k].i}
                m  == MarketOf(log[k].item.v.asset_id)
            IN  /\ cs = {k + 1}
                /\ log[k].book.bids = SortDesc(CoerceSide(RawBids(log[k].item.v)))
                /\ DOMAIN log[k + 1].args = {"yes_book", "no_book"}
                /\ log[k + 1].args.yes_book = BookAsOf(k, TokenOf(m, "yes"))
                /\ log[k + 1].args.no_book = BookAsOf(k, TokenOf(m, "no"))

\* C14: whenever the strategy callback is running, the reader thread that runs it
\* does not hold the feed's lock: the lock is free or held by the report thread.
C14_LockFreeInCallback == rd.pc = "callback" => lock \in {Null, "reporter"}

\* C14's case: a callback is running while get_report holds the lock
C14_Witness == rd.pc = "callback" /\ lock = "reporter" /\ rp.pc = "locked"

\* the log entries of a callback that raised
Raised == {k \in 1..Len(log) :
              \/ log[k].ev = "caught"
              \/ (log[k].ev = "error" /\ log[k].from = "callback")}

\* the positions <<frame, index>> of the book objects received after position <<n, i>>
BookObjectsAfter(n, i) ==
    {p \in (1..Len(wire)) \X (1..3) :
        /\ p[2] <= Len(ArrivalItems(wire[p[1]]))
        /\ (p[1] > n \/ (p[1] = n /\ p[2] > i))
        /\ IsBookObject(ArrivalItems(wire[p[1]])[p[2]])}

Handled(p, ev) ==
    \E k \in 1..Len(log) : log[k].ev = ev /\ log[k].n = p[1] /\ log[k].i = p[2]

\* C15: an exception of the strategy callback never leaves the message handler, and
\* once every frame has been read, each book object received after the one whose
\* callback raised, in the same array frame or a later frame, has been applied and
\* has had its callback.
C15_CallbackErrorContained ==
    /\ \A k \in 1..Len(log) : log[k].ev = "error" => log[k].from # "callback"
    /\ (rd.pc = "idle" /\ rd.n = Len(wire)) =>
          \A k \in Raised :
              \A p \in BookObjectsAfter(log[k].n, log[k].i) :
                  Handled(p, "apply") /\ Handled(p, "callback")

HasBookObject(frame) ==
    \E i \in 1..Len(ArrivalItems(frame)) : IsBookObject(ArrivalItems(frame)[i])

\* C16: a frame with a book object that has arrived and is waiting while a callback
\* runs is eventually applied, whether or not that callback ever returns.
C16_NoStall ==
    \A n \in 1..MaxFrames :
        (rd.pc = "callback" /\ rd.n < n /\ n <= Len(wire) /\ HasBookObject(wire[n]))
            ~> (\E k \in Applies : log[k].n = n)

\* the books a report's lines show
ShownBooks(lines) ==
    {<<j, side>> \in (1..Len(lines)) \X {"yes", "no"} :
        IF side = "yes" THEN ~lines[j].yes.none ELSE ~lines[j].no.none}

\* C17: a finished report describes one state: the market_tokens and orderbooks its
\* counts were read from are those its lines were read from, so markets= is the
\* number of market lines and assets= is at least the number of books shown.
C17_ConsistentSnapshot ==
    rp.pc = "done" =>
        /\ rp.at_counts = rp.at_lines
        /\ rp.markets = Len(rp.lines)
        /\ rp.assets >= Cardinality(ShownBooks(rp.lines))

\* <<n, i>> before <<m, j>>
Before(a, b) == a[1] < b[1] \/ (a[1] = b[1] /\ a[2] < b[2])

\* C18: the updates are applied in the order the objects were received: each update
\* is of the object at its frame and place in the array, updates follow each other
\* in frame order and, inside a frame, in array order, each update that went
\* through leaves the levels of its own message alone, and each book is as the last
\* update of its instrument left it.
C18_ArrivalOrder ==
    /\ \A k \in Applies :
          /\ log[k].n \in 1..Len(wire)
          /\ log[k].i \in 1..Len(ArrivalItems(wire[log[k].n]))
          /\ log[k].item = ArrivalItems(wire[log[k].n])[log[k].i]
          /\ (log[k].exc = Null =>
                 log[k].book.bids = SortDesc(CoerceSide(RawBids(log[k].item.v))))
    /\ \A j, k \in Applies :
          j < k => Before(<<log[j].n, log[j].i>>, <<log[k].n, log[k].i>>)
    /\ BooksFollowUpdates

\* C18's case: an array frame with two messages for t1 has been applied after a
\* frame with a message for t2, and t1's book holds the levels of the array's last
C18_Witness ==
    /\ rd.pc = "idle" /\ rd.n = 2
    /\ wire = <<BookT2, Array(<<BookT1a, BookT1b>>)>>
    /\ Cardinality(Applies) = 3
    /\ Books(conn)["t1"].bids = << <<42, 500>> >>

(***************************************************************************)
(* Properties of teardown.                                                 *)
(***************************************************************************)
TradeIds(r) == {r.active_autotrades[i].id : i \in 1..Len(r.active_autotrades)}

DistinctIds(r) == Cardinality(TradeIds(r)) = Len(r.active_autotrades)

\* C19: Polymarket.close and /autotrade/stop raise nothing, whether the connection
\* is not open yet, open or closed; once close has been called a further close
\* returns the instance as it is, a close of a closed connection left it as it was,
\* a stop for an id that is not registered leaves both registries as they were,
\* and (the registered ids being distinct) so does a second stop for the same id
C19_CloseIdempotent ==
    /\ cl.op = "close" =>
          /\ cl.exc = NoExc
          /\ cl.before._ws = "closed" => cl.after = cl.before
          /\ \A ws_close_raises \in BOOLEAN :
                close(sk, ws_close_raises) = [self |-> sk, exc |-> NoExc]
    /\ cl.op = "stop" =>
          /\ cl.exc = NoExc
          /\ cl.market = Null => cl.after = cl.before /\ cl.status = "error"
          /\ DistinctIds(cl.before) =>
                \A ws_close_raises \in BOOLEAN :
                    stop_autotrade(cl.after, cl.id, ws_close_raises) =
                        [reg |-> cl.after, status |-> "error", exc |-> NoExc]

\* C19's case: close has been called twice on an instance whose connection never
\* opened, and then a stop came for an id that an earlier stop had removed
C19_Witness ==
    /\ cl.op = "stop" /\ cl.was_stopped /\ cl.market = Null
    /\ cl.n = 2 /\ ~sk.opened /\ sk._ws = "closed"

(***************************************************************************)
(* Properties of the decision loop.                                        *)
(***************************************************************************)
\* the last callback came with both books, less than the throttle interval after
\* the last decision timestamp
CameThrottled ==
    /\ cb.t >= 0 /\ cb.yes_book # Null /\ cb.no_book # Null
    /\ cb.t - cb.last_before < THROTTLE

\* such a callback returned without acting
ThrottledReturns ==
    CameThrottled =>
        /\ ~cb.acted /\ cb.calls = <<>>
        /\ strat._last_decision_ts = cb.last_before

CallsOf(cycle) == {cycle.calls[i] : i \in 1..Len(cycle.calls)}

\* C20, as stated: a callback that comes throttled returns without acting, and a
\* call to the decision provider, an exposure refresh or an order submission of a
\* cycle is made at least 30 s after each call of the same kind of the cycle before
C20_CallsApart ==
    /\ ThrottledReturns
    /\ prevact.ts >= 0 =>
          \A c1 \in CallsOf(prevact), c2 \in CallsOf(lastact) :
              (c1.for = c2.for /\ c1.for \in {"decision", "positions", "order"})
                  => c2.t - c1.t >= THROTTLE

\* C20, amended: a callback that comes throttled returns without acting, the
\* decision timestamps of two cycles are at least 30 s apart, and every call of a
\* cycle is made at or after the cycle's decision timestamp
C20_DecisionsApart ==
    /\ ThrottledReturns
    /\ prevact.ts >= 0 => lastact.ts - prevact.ts >= THROTTLE
    /\ \A c \in CallsOf(lastact) : c.t >= lastact.ts
    /\ lastact.ts >= 0 => strat._last_decision_ts = lastact.ts

\* C20's case: two cycles have run exactly 30 s apart, each with a call to the
\* provider, and a callback that came with both books after them was throttled
C20_Witness ==
    /\ CameThrottled /\ ~cb.acted
    /\ prevact.ts >= 0 /\ lastact.ts - prevact.ts = THROTTLE
    /\ \E c \in CallsOf(prevact) : c.for = "decision"
    /\ \E c \in CallsOf(lastact) : c.for = "decision"

\* the order submissions among the calls of a callback
Orders(calls) == SelectSeq(calls, LAMBDA c : c.for = "order")

\* the last callback passed the throttle and the provider returned a decision
Decided == cb.t >= 0 /\ cb.acted /\ ~cb.failed

\* C21: every order that a cycle submits has a size of at most
\* min(max_size, max_position), and a strategy made without max_position has
\* max_position = max_size
C21_SizeCapped ==
    /\ \A c \in CallsOf(lastact) \cup CallsOf(prevact) :
          c.for = "order" => c.size <= Min(strat.max_size, strat.max_position)
    /\ NewStrategy(strat.max_size, <<>>, strat.client).max_position = strat.max_size

\* C21's case: the provider asked for more than max_position, which is below
\* max_size, and the order went out with size max_position
C21_Witness ==
    /\ Decided /\ strat.max_position < strat.max_size
    /\ Len(Orders(cb.calls)) = 1
    /\ Orders(cb.calls)[1].size = strat.max_position

\* the one order that a decision stands for
OrderFor(d) ==
    [token_id |-> IF d.outcome = "yes" THEN cb.yes_book ELSE cb.no_book,
     side |-> d.action, price |-> d.price, size |-> d.size, order_type |-> "FAK"]

\* an order call without the fields that say when and why it was made
Sent(c) ==
    [token_id |-> c.token_id, side |-> c.side, price |-> c.price, size |-> c.size,
     order_type |-> c.order_type]

\* C22, as stated: a decision that is hold, or of size 0, or a sell while the
\* tracked positions are empty, sends no order; every other decision sends exactly
\* one IOC order, for the yes book's instrument when its outcome is yes and for the
\* no book's otherwise
C22_OrderIff ==
    Decided =>
        IF \/ cb.decision.action = "hold"
           \/ cb.decision.size = 0
           \/ (cb.decision.action = "sell" /\ strat.positions = <<>>)
        THEN Orders(cb.calls) = <<>>
        ELSE /\ Len(Orders(cb.calls)) = 1
             /\ Sent(Orders(cb.calls)[1]) = OrderFor(cb.decision)

\* C22, amended: the same, with a strategy that has no execution client sending
\* no order at all
C22_OrderIffClient ==
    Decided =>
        IF \/ strat.client = Null
           \/ cb.decision.action = "hold"
           \/ cb.decision.size = 0
           \/ (cb.decision.action = "sell" /\ strat.positions = <<>>)
        THEN Orders(cb.calls) = <<>>
        ELSE /\ Len(Orders(cb.calls)) = 1
             /\ Sent(Orders(cb.calls)[1]) = OrderFor(cb.decision)

\* C22's case: a sell of the no outcome came while positions were tracked, and one
\* order went out for the no book's instrument
C22_Witness ==
    /\ Decided /\ cb.decision.action = "sell" /\ cb.decision.outcome = "no"
    /\ strat.positions # <<>>
    /\ Len(Orders(cb.calls)) = 1
    /\ Orders(cb.calls)[1].token_id = cb.no_book

\* C23: a cycle whose provider call failed returns to the feed having sent no
\* order and with the decision timestamp at the time of its callback, and the next
\* cycle calls the provider no sooner than 30 s after that time
C23_ProviderFailureContained ==
    /\ (cb.t >= 0 /\ cb.failed) =>
          /\ cb.acted /\ now >= cb.t
          /\ Orders(cb.calls) = <<>>
          /\ strat._last_decision_ts = cb.t
    /\ (prevact.ts >= 0 /\ prevact.failed) =>
          /\ Orders(prevact.calls) = <<>>
          /\ \A c \in CallsOf(lastact) :
                c.for = "decision" => c.t >= prevact.ts + THROTTLE

\* C23's case: the provider failed in one cycle and was called again exactly 30 s
\* after that cycle's callback
C23_Witness ==
    /\ prevact.ts >= 0 /\ prevact.failed
    /\ \E c \in CallsOf(lastact) : c.for = "decision" /\ c.t = prevact.ts + THROTTLE

(***************************************************************************)
(* Properties of the signal window.                                        *)
(***************************************************************************)
\* the last n items of a sequence
LastN(seq, n) == SubSeq(seq, Len(seq) - n + 1, Len(seq))

\* C24: the window never holds more than 10 items, its items have distinct ids,
\* on_new_post raises nothing, and a post whose id is in the window leaves the
\* window as it was
C24_WindowBounded ==
    /\ Len(sig.tweets) <= WINDOW
    /\ Cardinality(IdsOf(sig.tweets)) = Len(sig.tweets)
    /\ sig.exc = NoExc
    /\ (post.n > 0 /\ post.tweet.tweet_id \in IdsOf(post.before.tweets))
           => sig.tweets = post.before.tweets

\* C24's case: a post came with another text under an id held by a full window
C24_Witness ==
    /\ post.n > 0 /\ Len(post.before.tweets) = WINDOW
    /\ post.tweet.tweet_id \in IdsOf(post.before.tweets)
    /\ post.tweet \notin {post.before.tweets[i] : i \in 1..WINDOW}

\* C25: the window is the last min(k, 10) of the k posts that arrived with distinct
\* ids, in arrival order, and a post with a new id that meets a full window takes
\* out the oldest item and nothing else
C25_LastTenDistinct ==
    /\ sig.tweets = LastN(post.arrived, Min(Len(post.arrived), WINDOW))
    /\ (/\ post.n > 0 /\ Len(post.before.tweets) = WINDOW
        /\ post.tweet.tweet_id \notin post.before.tweet_ids)
           => sig.tweets = Append(Tail(post.before.tweets), post.tweet)

(***************************************************************************)
(* Properties of the simulator.                                            *)
(***************************************************************************)
RECURSIVE NetNotional(_)
\* the notionals of the sells of a ledger minus the notionals of its buys
NetNotional(trades) ==
    IF trades = <<>> THEN 0
    ELSE (IF Head(trades).action = "sell" THEN Head(trades).notional
          ELSE 0 - Head(trades).notional) + NetNotional(Tail(trades))

StartsWith(b, a) == Len(a) <= Len(b) /\ SubSeq(b, 1, Len(a)) = a

\* the trades that the last apply_actions call appended
Appended == SubSeq(sim.trades, Len(simcall.before.trades) + 1, Len(sim.trades))

\* C26: cash is the notionals of the ledger's sells minus those of its buys, every
\* notional is price times size, and an apply_actions call keeps the ledger it found
\* as a prefix and moves cash by the net notional of the trades it appended (by
\* nothing when it appended none)
C26_CashIsLedger ==
    /\ sim.cash = NetNotional(sim.trades)
    /\ \A i \in 1..Len(sim.trades) :
          sim.trades[i].notional = sim.trades[i].price * sim.trades[i].size
    /\ simcall.n > 0 =>
          /\ StartsWith(sim.trades, simcall.before.trades)
          /\ sim.cash - simcall.before.cash = NetNotional(Appended)
          /\ Appended = <<>> => sim.cash = simcall.before.cash

\* C26's case: a call appended a buy and a sell to a ledger that had trades
C26_Witness ==
    /\ simcall.n > 0 /\ simcall.before.trades # <<>>
    /\ Len(Appended) = 2
    /\ Appended[1].action = "buy" /\ Appended[2].action = "sell"
    /\ sim.cash # simcall.before.cash

\* an intent whose side is not yes/no, whose action is not buy/sell, or whose size
\* is not a number or is <= 0
Invalid(action) ==
    LET side == Lower(Get(action, "side", ""))
        direction == Lower(Get(action, IF "action" \in DOMAIN action
                                       THEN "action" ELSE "direction", ""))
        size == Get(action, "size", Null)
    IN  \/ side \notin {"yes", "no"}
        \/ direction \notin {"buy", "sell"}
        \/ size \notin NumericTokens
        \/ FloatValue(size) <= 0

\* C27: apply_actions raises nothing, and leaves the simulator as the batch without
\* its invalid intents would: the invalid ones change nothing and the others are
\* all processed
C27_InvalidSkipped ==
    simcall.n > 0 =>
        /\ simcall.exc = Null
        /\ sim = apply_actions(simcall.before,
                               SelectSeq(simcall.actions, LAMBDA a : ~Invalid(a)),
                               simcall.yes_book, simcall.no_book).self

\* the position in a side after a ledger
RECURSIVE Position(_, _)
Position(trades, side) ==
    IF trades = <<>> THEN 0
    ELSE Position(SubSeq(trades, 1, Len(trades) - 1), side)
         + (LET tr == trades[Len(trades)]
            IN  IF tr.side # side THEN 0
                ELSE IF tr.action = "buy" THEN tr.size ELSE 0 - tr.size)

\* the price of the last trade of a side in a ledger, 0 without one
LastPrice(trades, side) ==
    LET of == {i \in 1..Len(trades) : trades[i].side = side}
    IN  IF of = {} THEN 0
        ELSE trades[CHOOSE i \in of : \A j \in of : j <= i].price

\* equity after a ledger: cash + last_price_yes * position_yes
\*                             + last_price_no * position_no
Equity(trades) ==
    NetNotional(trades) + LastPrice(trades, "yes") * Position(trades, "yes")
                        + LastPrice(trades, "no") * Position(trades, "no")

\* the equity after each prefix of the ledger
Curve(trades) == [k \in 1..Len(trades) |-> Equity(SubSeq(trades, 1, k))]

SetMax(S) == CHOOSE x \in S : \A y \in S : y <= x

\* the largest (running peak - equity) over the prefixes of the ledger
Deficit(trades) ==
    LET e == Curve(trades)
    IN  IF trades = <<>> THEN 0
        ELSE SetMax({SetMax({e[j] : j \in 1..k}) - e[k] : k \in 1..Len(trades)})

\* C29: _max_drawdown is the largest (running peak - equity) over the prefixes of
\* the ledger, is never negative, and is 0 when no equity is below an earlier one
C29_MaxDrawdown ==
    /\ _max_drawdown(sim) = Deficit(sim.trades)
    /\ _max_drawdown(sim) >= 0
    /\ (\A j, k \in 1..Len(sim.trades) :
            j <= k => Curve(sim.trades)[j] <= Curve(sim.trades)[k])
           => _max_drawdown(sim) = 0

\* C29's case: the equity rose above 0 and then fell below that peak
C29_Witness ==
    /\ _max_drawdown(sim) > 0
    /\ \E j, k \in 1..Len(sim.trades) :
          /\ j < k /\ Curve(sim.trades)[j] > 0
          /\ Curve(sim.trades)[k] < Curve(sim.trades)[j]

\* the book of the side an intent names in the last apply_actions call
BookOf(side) == IF side = "yes" THEN simcall.yes_book ELSE simcall.no_book

\* the first bid price of a book, else its first ask price: <<>> without either
\* and without a book
FirstQuote(bk) ==
    IF bk = None THEN <<>>
    ELSE IF Len(bk.book.bids) > 0 THEN <<bk.book.bids[1][1]>>
    ELSE IF Len(bk.book.asks) > 0 THEN <<bk.book.asks[1][1]>>
    ELSE <<>>

\* the intents of the last batch that have a side, an action and a size, and a
\* quote in the book of their side
Fillable ==
    SelectSeq(simcall.actions,
              LAMBDA a : ~Invalid(a) /\ FirstQuote(BookOf(Lower(a.side))) # <<>>)

\* C34: every fill of an apply_actions call is priced at the first bid of the book
\* of its side, or at its first ask when the book has no bids; an intent whose
\* side has no book, or a book with no levels, makes no fill, and a call that
\* makes no fill leaves cash and positions as they were; a call that raises
\* nothing fills the other valid intents, one fill each, in their order
C34_FilledAtTop ==
    simcall.n > 0 =>
        /\ \A i \in DOMAIN Appended :
              /\ FirstQuote(BookOf(Appended[i].side)) = <<Appended[i].price>>
              /\ \A j \in DOMAIN Appended :
                    Appended[j].side = Appended[i].side
                        => Appended[j].price = Appended[i].price
        /\ simcall.exc = Null =>
              /\ Len(Appended) = Len(Fillable)
              /\ \A i \in DOMAIN Appended :
                    /\ Appended[i].side = Lower(Fillable[i].side)
                    /\ Appended[i].size = FloatValue(Fillable[i].size)
        /\ Appended = <<>> =>
              /\ sim.cash = simcall.before.cash
              /\ sim.pos_yes = simcall.before.pos_yes
              /\ sim.pos_no = simcall.before.pos_no

\* C34's case: one batch was filled on the yes side at the first ask of a book
\* without bids and met a no book without levels, after a batch filled at a bid
C34_Witness ==
    /\ simcall.n = 2 /\ simcall.exc = Null
    /\ simcall.before.trades # <<>>
    /\ simcall.yes_book # None /\ simcall.yes_book.book.bids = <<>>
    /\ simcall.no_book # None /\ simcall.no_book.book.asks = <<>>
    /\ Len(simcall.actions) = 2 /\ Len(Appended) = 1
    /\ Appended[1].price = simcall.yes_book.book.asks[1][1]

\* C37: position_yes is the sizes of the ledger's yes buys minus the sizes of its
\* yes sells, position_no likewise for the no side, and an apply_actions call
\* that changes the position of a side has appended a ledger entry of that side
C37_PositionIsLedger ==
    /\ sim.pos_yes = Position(sim.trades, "yes")
    /\ sim.pos_no = Position(sim.trades, "no")
    /\ simcall.n > 0 =>
          /\ sim.pos_yes # simcall.before.pos_yes
                => \E i \in DOMAIN Appended : Appended[i].side = "yes"
          /\ sim.pos_no # simcall.before.pos_no
                => \E i \in DOMAIN Appended : Appended[i].side = "no"

\* C37's case: the ledger holds a yes buy and a yes sell of another size, and the
\* last call appended an entry of the no side only
C37_Witness ==
    /\ simcall.n = 2
    /\ \E i, j \in DOMAIN sim.trades :
          /\ sim.trades[i].side = "yes" /\ sim.trades[i].action = "buy"
          /\ sim.trades[j].side = "yes" /\ sim.trades[j].action = "sell"
    /\ sim.pos_yes = 500
    /\ Len(Appended) = 1 /\ Appended[1].side = "no"
    /\ sim.pos_no # simcall.before.pos_no

(***************************************************************************)
(* Properties of the replay.                                               *)
(***************************************************************************)
\* a replay of the scenario's two trades, in either order of the list, through the
\* strategy that buys 10 yes on the first message and sells 5 yes on the second,
\* has printed its report
ScenarioReported ==
    /\ src.from = "trades" /\ src.strategy = "scenario"
    /\ src.trades \in {ScenarioTrades, Reverse(ScenarioTrades)}
    /\ rpl.reported # <<>>

\* C28: the scenario ends with cash -2.0, position_yes 5.0, unrealized PnL 3.0 at
\* the last yes price 0.6, and total PnL 1.0 (cash and PnL in ten-thousandths,
\* position and price in hundredths)
C28_Scenario ==
    ScenarioReported =>
        /\ rpl.simulator.cash = 0 - 20000
        /\ rpl.simulator.pos_yes = 500
        /\ rpl.simulator.last_price_yes = <<60>>
        /\ rpl.reported[1].realized = 0 - 20000
        /\ rpl.reported[1].unrealized = 30000
        /\ rpl.reported[1].total = 10000

\* C28's case: the scenario was replayed to its report, with two trades made
C28_Witness == ScenarioReported /\ Len(rpl.simulator.trades) = 2

\* what a book holds apart from the side it is labelled with
Content(b) ==
    [asset_id |-> b.asset_id, market |-> b.market, bids |-> b.bids, asks |-> b.asks,
     timestamp |-> b.timestamp, hash |-> b.hash]

\* C30: on a recorded wire source the books of the replay hold what the books of
\* the feed hold after the same messages, and for every message the feed calls its
\* strategy for, the replay calls its strategy once, with the same yes and no books
C30_ReplayAsLive ==
    src.from = "wire" =>
        /\ DOMAIN rpl.books = DOMAIN live.books
        /\ \A a \in DOMAIN live.books : Content(rpl.books[a]) = Content(live.books[a])
        /\ (rstep.n > 0 /\ rstep.live_applied) =>
              /\ rstep.applied /\ rstep.called = 1
              /\ rstep.args = rstep.live_args

(***************************************************************************)
(* Properties of the synthesized book messages.                            *)
(***************************************************************************)
\* the trades that make a message: an asset id, a price and a size above zero
ValidTrade(t) ==
    /\ \/ ("asset" \in DOMAIN t /\ t.asset \notin {Null, ""})
       \/ ("token" \in DOMAIN t /\ t.token \notin {Null, ""})
    /\ "price" \in DOMAIN t /\ t.price \in NumericTokens /\ FloatValue(t.price) > 0
    /\ "size" \in DOMAIN t /\ t.size \in NumericTokens /\ FloatValue(t.size) > 0

\* what a trade and its message have in common
TradeFacts(t) ==
    [asset_id |-> IF "asset" \in DOMAIN t THEN t.asset ELSE t.token,
     timestamp |-> t.timestamp, price |-> t.price, size |-> t.size]

MessageFacts(m) ==
    [asset_id |-> m.v.asset_id, timestamp |-> m.v.timestamp,
     price |-> m.v.bids[1].price, size |-> m.v.bids[1].size]

CountOf(f, facts) == Cardinality({i \in DOMAIN facts : facts[i] = f})

\* C31: the messages made of a trade list come in non-decreasing timestamp order,
\* one for each trade with an asset id, a price above zero and a size above zero
\* and none for any other trade, each a book snapshot with one bid and one ask,
\* both at the price and size of its trade
C31_TradesToMessages ==
    src.from = "trades" =>
        LET msgs == MessagesOf(src)
            valid == SelectSeq(src.trades, ValidTrade)
            tf == [i \in DOMAIN valid |-> TradeFacts(valid[i])]
            mf == [i \in DOMAIN msgs |-> MessageFacts(msgs[i])]
        IN  /\ Len(msgs) = Len(valid)
            /\ \A i \in DOMAIN msgs :
                  /\ msgs[i].v.event_type = "book"
                  /\ Len(msgs[i].v.bids) = 1 /\ Len(msgs[i].v.asks) = 1
                  /\ msgs[i].v.bids[1] = msgs[i].v.asks[1]
                  /\ CountOf(mf[i], mf) = CountOf(mf[i], tf)
            /\ \A i, j \in DOMAIN msgs :
                  i < j => IntOf(msgs[i].v.timestamp)[1] <= IntOf(msgs[j].v.timestamp)[1]

\* C31's case: a trade list that comes out of order and holds trades that make no
\* message was replayed to its end
C31_Witness ==
    /\ src.from = "trades"
    /\ \E i, j \in DOMAIN src.trades :
          i < j /\ TimestampKey(src.trades[i]) > TimestampKey(src.trades[j])
                /\ ValidTrade(src.trades[i]) /\ ValidTrade(src.trades[j])
    /\ \E i \in DOMAIN src.trades : ~ValidTrade(src.trades[i])
    /\ rpl.i = Len(MessagesOf(src)) /\ rpl.i = 2

(***************************************************************************)
(* Properties of the connection's handshake and heartbeat.                 *)
(***************************************************************************)
Handshakes(ws) == {i \in DOMAIN ws.sends : ws.sends[i].frame = "subscribe"}

\* a step in which something is sent on a connection that was already open
SendsOnOpened ==
    \E c \in DOMAIN hb.conns : Len(hb'.conns[c].sends) > Len(hb.conns[c].sends)

\* C32: on every connection one subscription handshake is sent, the first frame of
\* the connection, listing the asset ids the feed had when the connection
\* opened; after a PING that went out the heartbeat goes on, after the first send
\* that fails nothing more is sent on the connection; and a step of the heartbeat
\* neither ends a connection nor opens one
C32_HandshakeThenPings ==
    /\ [](\A c \in DOMAIN hb.conns :
            LET ws == hb.conns[c] IN
            /\ Cardinality(Handshakes(ws)) = 1
            /\ ws.sends[1].frame = "subscribe"
            /\ ws.sends[1].assets_ids = hb.opened[c]
            /\ \A i \in DOMAIN ws.sends :
                  ~ws.sends[i].ok => i = Len(ws.sends)
            /\ (ws.sends[Len(ws.sends)].ok /\ ws.sends[Len(ws.sends)].frame = "PING")
                  => ws.ping = "sleeping"
            /\ (ws.sends[Len(ws.sends)].frame = "PING" /\ ~ws.sends[Len(ws.sends)].ok)
                  => ws.ping = "stopped")
    /\ [][SendsOnOpened =>
            /\ Len(hb'.conns) = Len(hb.conns)
            /\ \A c \in DOMAIN hb.conns : hb'.conns[c].state = hb.conns[c].state]_vars

\* C32's case: a connection that opened after the asset ids had changed sent PINGs
\* until one failed while the socket was still open
C32_Witness ==
    \E c \in DOMAIN hb.conns :
        /\ c > 1 /\ hb.opened[c] # hb.opened[1]
        /\ hb.conns[c].state = "open" /\ hb.conns[c].ping = "stopped"
        /\ PingsOn(hb.conns[c]) = 3

(***************************************************************************)
(* Properties of a book read from another thread.                          *)
(***************************************************************************)
\* C33: the best ask and the best bid that a thread other than the reader has read
\* from a book, and uses, are the best ask and the best bid of one and the same
\* completed update of the book
C33_ReadsOneUpdate ==
    (vw.obs.pc = "done" /\ vw.obs.asks # <<>> /\ vw.obs.bids # <<>>) =>
        \E k \in DOMAIN vw.committed :
            /\ vw.obs.asks = best_ask(vw.committed[k], 1)
            /\ vw.obs.bids = best_bid(vw.committed[k], 1)

(***************************************************************************)
(* Properties of the signal window's id set.                               *)
(***************************************************************************)
\* C35: tweet_ids is the set of the ids of the items in the window, and a post
\* whose id is not on an item of the window is taken into the window
C35_IdsAreWindow ==
    /\ sig.tweet_ids = IdsOf(sig.tweets)
    /\ (post.n > 0 /\ post.tweet.tweet_id \notin IdsOf(post.before.tweets))
           => sig.tweets[Len(sig.tweets)] = post.tweet

(***************************************************************************)
(* Properties of the feed's three views of what is in scope.               *)
(***************************************************************************)
\* the instrument ids of the forward map
ForwardIds(mt) ==
    UNION {{mt[i].sides[j][2] : j \in 1..Len(mt[i].sides)} : i \in 1..Len(mt)}

\* C36: the instrument ids in asset_ids, the instrument ids that token_lookup
\* maps, and the instrument ids under the markets of market_tokens are the same
\* set, after calls that returned and after calls that raised
C36_ScopesAgree ==
    /\ {feed.asset_ids[i] : i \in 1..Len(feed.asset_ids)} = DOMAIN feed.token_lookup
    /\ DOMAIN feed.token_lookup = ForwardIds(feed.market_tokens)

\* C36's case: a subscribe_market for a slug the event does not have raised
\* KeyError on a feed narrowed to one market, after fetching the event again
C36_Witness ==
    /\ call.op = "subscribe_market" /\ call.exc.type = "KeyError"
    /\ prev.op = "subscribe_market" /\ Len(prev.topology[1]) = 1
    /\ Len(feed.market_tokens) = 2 /\ Len(feed.asset_ids) = 4

(***************************************************************************)
(* Properties of a book callback with a book missing.                      *)
(***************************************************************************)
\* the last callback came without its yes book or without its no book
CameIncomplete == cb.t >= 0 /\ (cb.yes_book = Null \/ cb.no_book = Null)

\* C38: a callback that comes with a book missing makes no call at all (no
\* exposure query, no provider call, no order) and leaves the last decision
\* timestamp as it was; and a callback with both books that returns without
\* acting comes less than 30 s after a cycle that did act
C38_IncompleteIsInert ==
    /\ CameIncomplete =>
          /\ ~cb.acted /\ cb.calls = <<>>
          /\ strat._last_decision_ts = cb.last_before
    /\ (cb.t >= 0 /\ ~CameIncomplete /\ ~cb.acted) =>
          /\ lastact.ts >= 0
          /\ cb.t - lastact.ts < THROTTLE

\* C38's case: a callback came with its yes book but without its no book, 30 s or
\* more after the last cycle
C38_Witness ==
    /\ CameIncomplete /\ cb.yes_book # Null
    /\ lastact.ts >= 0 /\ cb.t - lastact.ts >= THROTTLE

(***************************************************************************)
(* Properties of the live feed's two book maps.  A side entry holds the    *)
(* instrument id of the Book object it refers to.                          *)
(***************************************************************************)
\* the (market, side) entries of market_books that refer to the book of an id
EntriesOf(a) ==
    {e \in UNION {{<<slug, side>> : side \in DOMAIN live.market_books[slug]} :
                     slug \in DOMAIN live.market_books} :
        live.market_books[e[1]][e[2]] = a}

\* every side entry that is not empty refers to a book of the instrument map, and
\* that book has the instrument id it is stored under
EntriesAreBooks ==
    \A slug \in DOMAIN live.market_books :
        \A side \in DOMAIN live.market_books[slug] :
            live.market_books[slug][side] # Null =>
                /\ live.market_books[slug][side] \in DOMAIN live.books
                /\ live.books[live.market_books[slug][side]].asset_id
                       = live.market_books[slug][side]

BooksOnlyAdded == [][DOMAIN live.books \subseteq DOMAIN live'.books]_vars

\* C39, as stated: every side entry that is not empty is the book stored under
\* its instrument id, every book is referred to by exactly one (market, side)
\* entry, and no book is ever removed
C39_OneEntryPerBook ==
    /\ [](EntriesAreBooks
          /\ \A a \in DOMAIN live.books : Cardinality(EntriesOf(a)) = 1)
    /\ BooksOnlyAdded

\* C39, amended: every side entry that is not empty is the book stored under its
\* instrument id, no book is ever removed, every book whose instrument id is in
\* token_lookup is referred to by exactly one entry, the one token_lookup names,
\* and a book of any other instrument id is referred to only under the empty side
C39_OneEntryPerKnownBook ==
    /\ [](EntriesAreBooks
          /\ \A a \in DOMAIN live.books :
                IF a \in DOMAIN live.token_lookup
                THEN EntriesOf(a) = {live.token_lookup[a]}
                ELSE \A e \in EntriesOf(a) : e[2] = "")
    /\ BooksOnlyAdded

\* C39's case: the feed holds the books of both sides of its market and the book
\* of an instrument outside its subscription
C39_Witness ==
    /\ {"t1", "t2"} \subseteq DOMAIN live.books
    /\ \E a \in DOMAIN live.books : a \notin DOMAIN live.token_lookup
    /\ rstep.n = 3 /\ rstep.live_applied

(***************************************************************************)
(* Properties of the two registries of main.py.                            *)
(***************************************************************************)
\* C40: every market with a feed in active_feeds has an auto trade in
\* active_autotrades, and a start request for a market that has an auto trade is
\* answered with an error and leaves both registries as they were
C40_FeedsHaveTrades ==
    /\ DOMAIN reg.active_feeds \subseteq TradeMarkets(reg)
    /\ (cl.op = "start" /\ cl.market \in TradeMarkets(cl.before)) =>
          /\ cl.status = "error"
          /\ cl.after = cl.before

====
